---- MODULE Spec2Model ----
(***************************************************************************)
(* Model of the analysis core of AnalyzerPro (packages/core):              *)
(*   - DuplicationDetector.findDuplicatedCode   (duplication-detector.ts)  *)
(*   - FunctionAnalyzer.analyzeFunction and the tree walker traverse       *)
(*   - RepositoryAnalyzer.analyzeRepo / findFiles / analyzeFile            *)
(* Strings are sequences of one-character strings, so that the text        *)
(* functions of the detector are computed as the code computes them.       *)
(***************************************************************************)
EXTENDS Integers, Sequences, FiniteSets, TLC

(***************************************************************************)
(* Generic helpers                                                         *)
(***************************************************************************)
Max(a, b) == IF a >= b THEN a ELSE b

Abs(a) == IF a < 0 THEN 0 - a ELSE a

RECURSIVE SumSeq(_)
SumSeq(s) == IF s = <<>> THEN 0 ELSE Head(s) + SumSeq(Tail(s))

Range(s) == {s[i] : i \in DOMAIN s}

(* JavaScript String.prototype.slice(from, to) on a 0-based string, for    *)
(* 0 <= from; the result is clipped to the string.                         *)
Slice(s, from, to) ==
  LET hi == IF to > Len(s) THEN Len(s) ELSE to
  IN  IF from >= hi THEN <<>> ELSE SubSeq(s, from + 1, hi)

(* s.startsWith(p) at 0-based offset i *)
MatchAt(s, p, i) ==
  /\ i + Len(p) <= Len(s)
  /\ \A k \in 1..Len(p) : s[i + k] = p[k]

Includes(s, p) == \E i \in 0..Len(s) : MatchAt(s, p, i)

(***************************************************************************)
(* Character classes of the regular expressions in duplication-detector.ts *)
(* The sample texts contain no '$', so an identifier is a maximal run of   *)
(* word characters that does not start with a digit.                       *)
(***************************************************************************)
WhiteSpace == {" ", "\n", "\t"}

Digits == {"0", "1", "2", "3", "4", "5", "6", "7", "8", "9"}

Letters == {"a", "b", "c", "d", "e", "f", "g", "h", "i", "j", "k", "l", "m",
            "n", "o", "p", "q", "r", "s", "t", "u", "v", "w", "x", "y", "z",
            "A", "B", "C", "D", "E", "F", "G", "H", "I", "J", "K", "L", "M",
            "N", "O", "P", "Q", "R", "S", "T", "U", "V", "W", "X", "Y", "Z"}

WordChars == Letters \cup Digits \cup {"_"}

(* String.prototype.trim *)
RECURSIVE TrimLeft(_)
TrimLeft(s) ==
  IF s # <<>> /\ Head(s) \in WhiteSpace THEN TrimLeft(Tail(s)) ELSE s

RECURSIVE TrimRight(_)
TrimRight(s) ==
  IF s # <<>> /\ s[Len(s)] \in WhiteSpace
  THEN TrimRight(SubSeq(s, 1, Len(s) - 1)) ELSE s

Trim(s) == TrimRight(TrimLeft(s))

(* code.replace(/\s+/g, ' '): every maximal run of white space becomes one *)
(* space.                                                                  *)
RECURSIVE CollapseWhiteSpace(_)
CollapseWhiteSpace(s) ==
  IF s = <<>> THEN <<>>
  ELSE IF Head(s) \in WhiteSpace
       THEN <<" ">> \o CollapseWhiteSpace(TrimLeft(s))
       ELSE <<Head(s)>> \o CollapseWhiteSpace(Tail(s))

(* code.replace(/['"]/g, '"') *)
UnifyQuotes(s) == [i \in DOMAIN s |-> IF s[i] \in {"'", "\""} THEN "\"" ELSE s[i]]

(* code.replace(/[;{}]/g, '') *)
StripPunctuation(s) == SelectSeq(s, LAMBDA c : c \notin {";", "{", "}"})

normalizeCode(code) == Trim(StripPunctuation(UnifyQuotes(CollapseWhiteSpace(code))))

(***************************************************************************)
(* DuplicationDetector: text functions (duplication-detector.ts 97-201)    *)
(***************************************************************************)
SIMILARITY_THRESHOLD_PERCENT == 80

MAX_CODE_LENGTH == 1000

windowSize == 50

(* The value extractFunctionBody returns when no body is matched (null).   *)
NoBody == <<"null">>

(* Offsets of an "=>" after which no '{' occurs up to the end of the text: *)
(* the places where the arrow pattern of extractFunctionBody matches.      *)
ArrowMatches(code) ==
  {i \in 0..Len(code) :
     /\ MatchAt(code, <<"=", ">">>, i)
     /\ \A k \in (i + 3)..Len(code) : code[k] # "{"}

BraceOpenings(code) == {i \in 1..Len(code) : code[i] = "{"}

SetMin(S) == CHOOSE x \in S : \A y \in S : x <= y

extractFunctionBody(code) ==
  IF Includes(code, <<"=", ">">>) /\ ArrowMatches(code) # {}
  THEN Trim(Slice(code, SetMin(ArrowMatches(code)) + 2, Len(code)))
  ELSE IF /\ code # <<>>
          /\ code[Len(code)] = "}"
          /\ BraceOpenings(code) \ {Len(code)} # {}
       THEN Trim(SubSeq(code, SetMin(BraceOpenings(code)) + 1, Len(code) - 1))
       ELSE NoBody

(* Maximal runs of word characters, in order of occurrence. *)
RECURSIVE WordRuns(_, _)
WordRuns(s, cur) ==
  IF s = <<>> THEN (IF cur = <<>> THEN <<>> ELSE <<cur>>)
  ELSE IF Head(s) \in WordChars
       THEN WordRuns(Tail(s), Append(cur, Head(s)))
       ELSE (IF cur = <<>> THEN <<>> ELSE <<cur>>) \o WordRuns(Tail(s), <<>>)

Words(s) == WordRuns(s, <<>>)

keywords == {<<"i", "f">>, <<"f", "o", "r">>, <<"w", "h", "i", "l", "e">>,
             <<"r", "e", "t", "u", "r", "n">>, <<"c", "o", "n", "s", "t">>,
             <<"l", "e", "t">>, <<"v", "a", "r">>,
             <<"f", "u", "n", "c", "t", "i", "o", "n">>}

(* Number of matches of /\bkeyword\b/g summed over the keywords. *)
countKeywords(code) == Len(SelectSeq(Words(code), LAMBDA w : w \in keywords))

operators == << <<"=">>, <<"=", "=">>, <<"=", "=", "=">>, <<"!", "=">>,
               <<"!", "=", "=">>, <<"+">>, <<"-">>, <<"*">>, <<"/">>, <<"%">>,
               <<"&", "&">>, <<"|", "|">> >>

(* code.split(op).length - 1: occurrences of op found left to right        *)
(* without overlap, from 0-based offset i on.                              *)
RECURSIVE CountOccurrences(_, _, _)
CountOccurrences(s, op, i) ==
  IF i + Len(op) > Len(s) THEN 0
  ELSE IF MatchAt(s, op, i) THEN 1 + CountOccurrences(s, op, i + Len(op))
       ELSE CountOccurrences(s, op, i + 1)

countOperators(code) ==
  SumSeq([k \in DOMAIN operators |-> CountOccurrences(code, operators[k], 0)])

(* Matches of the identifier pattern: word runs not starting with a digit *)
countIdentifiers(code) ==
  Len(SelectSeq(Words(code), LAMBDA w : Head(w) \notin Digits))

(* Number -> decimal digits, as String(n) does for a natural number. *)
DigitChar(d) == CASE d = 0 -> "0" [] d = 1 -> "1" [] d = 2 -> "2" [] d = 3 -> "3"
                  [] d = 4 -> "4" [] d = 5 -> "5" [] d = 6 -> "6" [] d = 7 -> "7"
                  [] d = 8 -> "8" [] d = 9 -> "9"

RECURSIVE ToDecimal(_)
ToDecimal(n) ==
  IF n < 10 THEN <<DigitChar(n)>> ELSE Append(ToDecimal(n \div 10), DigitChar(n % 10))

DigitValue(c) == CHOOSE d \in 0..9 : DigitChar(d) = c

(* Number(text) for a string of decimal digits. *)
RECURSIVE ParseNumber(_)
ParseNumber(t) ==
  IF t = <<>> THEN 0
  ELSE 10 * ParseNumber(SubSeq(t, 1, Len(t) - 1)) + DigitValue(t[Len(t)])

(* features.join('|') *)
RECURSIVE Join(_)
Join(parts) ==
  IF Len(parts) = 1 THEN Head(parts)
  ELSE Head(parts) \o <<"|">> \o Join(Tail(parts))

(* fp.split('|') *)
RECURSIVE SplitBar(_, _)
SplitBar(s, cur) ==
  IF s = <<>> THEN <<cur>>
  ELSE IF Head(s) = "|" THEN <<cur>> \o SplitBar(Tail(s), <<>>)
       ELSE SplitBar(Tail(s), Append(cur, Head(s)))

generateFingerprint(code) ==
  Join(<<ToDecimal(Len(code)), ToDecimal(countKeywords(code)),
         ToDecimal(countOperators(code)), ToDecimal(countIdentifiers(code))>>)

FingerprintNumbers(fp) ==
  LET parts == SplitBar(fp, <<>>) IN [k \in DOMAIN parts |-> ParseNumber(parts[k])]

(* Math.abs(a - b) / Math.max(a, b) < num/den; 0/0 is NaN, which is not    *)
(* below any threshold.                                                    *)
RelDiffBelow(a, b, num, den) ==
  /\ Max(a, b) > 0
  /\ den * Abs(a - b) < num * Max(a, b)

areFingerprintsSimilar(fp1, fp2) ==
  LET n1 == FingerprintNumbers(fp1)
      n2 == FingerprintNumbers(fp2)
  IN  /\ RelDiffBelow(n1[1], n2[1], 2, 10)
      /\ RelDiffBelow(n1[2], n2[2], 3, 10)
      /\ RelDiffBelow(n1[3], n2[3], 3, 10)
      /\ RelDiffBelow(n1[4], n2[4], 3, 10)

CharWeight(c) ==
  (IF c \in {"{", "}", "(", ")"} THEN 2 ELSE 0)
  + (IF c \in {";", "=", "+", "-"} THEN 1 ELSE 0)

extractWindowFeatures(window) ==
  SumSeq([k \in DOMAIN window |-> CharWeight(window[k])])

areWindowsSimilar(window1, window2) ==
  Abs(extractWindowFeatures(window1) - extractWindowFeatures(window2)) < 3

(* Start offsets of the windows of a string: 0, 25, 50, ... below          *)
(* length - windowSize.                                                    *)
WindowStarts(str) ==
  {i \in 0..Len(str) : i % (windowSize \div 2) = 0 /\ i < Len(str) - windowSize}

(* calculateSimilarityOptimized as the pair <<matches, comparisons>>. *)
calculateSimilarityOptimized(str1, str2) ==
  LET pairs == WindowStarts(str1) \X WindowStarts(str2)
      hits  == {p \in pairs :
                  areWindowsSimilar(Slice(str1, p[1], p[1] + windowSize),
                                    Slice(str2, p[2], p[2] + windowSize))}
  IN  <<Cardinality(hits), Cardinality(pairs)>>

(* similarity >= SIMILARITY_THRESHOLD, where similarity is                 *)
(* matches / comparisons, or 0 when there was no comparison.               *)
ReachesThreshold(similarity) ==
  /\ similarity[2] > 0
  /\ 100 * similarity[1] >= SIMILARITY_THRESHOLD_PERCENT * similarity[2]

(***************************************************************************)
(* Function records (FunctionMetrics, types.ts 3-11) given to the detector *)
(***************************************************************************)
MaxLine == 3

MaxFuncs == 3

(* An arrow function with an expression body:  x => x + 1 *)
CodeAdd ==
  <<"x", " ", "=", ">", " ", "x", " ", "+", " ", "1">>

(* A function with a block body, over three lines:                         *)
(*   function f() {                                                        *)
(*     if (x) { y = 2 }                                                    *)
(*   }                                                                     *)
CodeBlock ==
  <<"f", "u", "n", "c", "t", "i", "o", "n", " ", "f", "(", ")", " ", "{",
    "\n", " ", " ", "i", "f", " ", "(", "x", ")", " ", "{", " ", "y", " ",
    "=", " ", "2", " ", "}", "\n", "}">>

CodeSamples == {CodeAdd, CodeBlock}

(* A record of a function with a location: it lies within the file's lines *)
(* and carries the text of its lines.                                      *)
LocatedRecords ==
  {r \in [startLine : 1..MaxLine, lines : 1..MaxLine, code : CodeSamples] :
     r.startLine + r.lines - 1 <= MaxLine}

(* A function node without loc: size 0, start line 0 and no text           *)
(* (analyzeFile, traverser.test.ts 202-204).                               *)
UnlocatedRecord == [startLine |-> 0, lines |-> 0, code |-> <<>>]

FunctionRecords == LocatedRecords \cup {UnlocatedRecord}

(* The lists of records analyzeFile can collect: in source order, as the   *)
(* walker reports the functions.                                           *)
FunctionLists(maxFuncs) ==
  UNION {{fs \in [1..n -> FunctionRecords] :
            \A i \in 1..(n - 1) : fs[i].startLine <= fs[i + 1].startLine} :
         n \in 0..maxFuncs}

(* Two functions of one line whose bodies differ in one identifier, and    *)
(* so in the length of the normalized text:                                *)
(*   function f() { return alpha + beta + gamma + delta + epsilon + zeta + eta + theta } *)
(*   function f() { return alpha + beta + gamma + delta + epsilon + zeta + eta + thetas } *)
CodeSum ==
  <<"f", "u", "n", "c", "t", "i", "o", "n", " ", "f", "(", ")", " ", "{",
    " ", "r", "e", "t", "u", "r", "n", " ", "a", "l", "p", "h", "a", " ",
    "+", " ", "b", "e", "t", "a", " ", "+", " ", "g", "a", "m", "m", "a",
    " ", "+", " ", "d", "e", "l", "t", "a", " ", "+", " ", "e", "p", "s",
    "i", "l", "o", "n", " ", "+", " ", "z", "e", "t", "a", " ", "+", " ",
    "e", "t", "a", " ", "+", " ", "t", "h", "e", "t", "a", " ", "}">>

CodeSumLonger ==
  <<"f", "u", "n", "c", "t", "i", "o", "n", " ", "f", "(", ")", " ", "{",
    " ", "r", "e", "t", "u", "r", "n", " ", "a", "l", "p", "h", "a", " ",
    "+", " ", "b", "e", "t", "a", " ", "+", " ", "g", "a", "m", "m", "a",
    " ", "+", " ", "d", "e", "l", "t", "a", " ", "+", " ", "e", "p", "s",
    "i", "l", "o", "n", " ", "+", " ", "z", "e", "t", "a", " ", "+", " ",
    "e", "t", "a", " ", "+", " ", "t", "h", "e", "t", "a", "s", " ", "}">>

LongCodeSamples == {CodeSum, CodeSumLonger}

(* The lists of records with these texts. *)
LongFunctionLists(maxFuncs) ==
  UNION {{fs \in [1..n -> {r \in [startLine : 1..MaxLine, lines : 1..MaxLine,
                                   code : LongCodeSamples] :
                             r.startLine + r.lines - 1 <= MaxLine}] :
            \A i \in 1..(n - 1) : fs[i].startLine <= fs[i + 1].startLine} :
         n \in 0..maxFuncs}

(* A function expression whose last line goes on after the closing brace,  *)
(* so that neither pattern of extractFunctionBody matches:                 *)
(*   f = function () { y = 2 }; *)
CodeAssigned ==
  <<"f", " ", "=", " ", "f", "u", "n", "c", "t", "i", "o", "n", " ", "(",
    ")", " ", "{", " ", "y", " ", "=", " ", "2", " ", "}", ";">>

UnextractedCodeSamples == {CodeAdd, CodeAssigned}

(* The lists of records with these texts. *)
UnextractedFunctionLists(maxFuncs) ==
  UNION {{fs \in [1..n -> {r \in [startLine : 1..MaxLine, lines : 1..MaxLine,
                                   code : UnextractedCodeSamples] :
                             r.startLine + r.lines - 1 <= MaxLine}] :
            \A i \in 1..(n - 1) : fs[i].startLine <= fs[i + 1].startLine} :
         n \in 0..maxFuncs}

(***************************************************************************)
(* State                                                                   *)
(***************************************************************************)
VARIABLES
  functions,            \* analyzeFile: the records collected for the file
  totalFileLines,       \* findDuplicatedCode: second argument
  sortEngine,           \* how Array.prototype.sort places records the comparator does not order
  sortedFunctions,      \* findDuplicatedCode: indexes into functions, sorted
  levelGroups,          \* findDuplicatedCode: Map level -> records, in insertion order
  codeMap,              \* findDuplicatedCode: Map fingerprint -> group, in insertion order
  duplicatedLineFlags,  \* findDuplicatedCode: one flag per line
  cursor,               \* findDuplicatedCode: <<group, position>> of the record handled next
  detectorPc,           \* position in analyzeFile / findDuplicatedCode
  duplicatedLines,      \* value returned by findDuplicatedCode
  duplicationPercentage,\* analyzeFile: field of the FileAnalysis
  calls,                \* number of findDuplicatedCode calls made on the detector
  firstResult,          \* value returned by the first call
  ast,                  \* the tree given by the parser: node k is ast[k], in pre-order
  located,              \* whether the parser attached a loc to the nodes
  analysis,             \* FunctionAnalyzer.analyzeFunction: <<node, returned value>>
  exportedComplexity,   \* calculateComplexity: the node, the version called and the value returned
  parsed,               \* the tree as the parser returned it, before traverse was called
  walkStack,            \* traverse: the pending traverse calls, the next one first
  functionCalls,        \* the onFunction calls made so far, in call order
  walkPc,               \* position of the traverse call made by analyzeFile
  entries,              \* the directory tree under the root: entry k is entries[k]
  repoRoot,             \* RepositoryAnalyzer.repoRoot
  runPc,                \* position of the analyzeRepo call
  dirStack,             \* findFiles: the processDirectory calls in progress, innermost last
  files,                \* findFiles: the list of discovered files
  filePc,               \* position of the analyzeFile call of each discovered file
  batchStart,           \* analyzeRepo: the loop variable i
  batchesRun,           \* number of batches started
  fileAnalyses,         \* analyzeRepo: the accumulated file analyses
  errorLog,             \* what console.error was called for
  failedDirs,           \* the directories whose listing failed
  report,               \* the value analyzeRepo resolved with
  contextStack,         \* ContextualNamingSystem.contextStack of one instance
  namedFunctions,       \* ContextualNamingSystem.namedFunctions: pairs of cache key and name
  generated,            \* the last generateName call: node, top context and returned name
  sharedRoot,           \* RepositoryAnalyzer.repoRoot of an analyzer on which two runs are made
  runs                  \* the two analyzeRepo calls made on that analyzer

detectorVars ==
  <<functions, totalFileLines, sortEngine, sortedFunctions, levelGroups, codeMap,
    duplicatedLineFlags, cursor, detectorPc, duplicatedLines,
    duplicationPercentage, calls, firstResult>>

walkerVars == <<parsed, walkStack, functionCalls, walkPc>>

analyzerVars == <<ast, located, analysis, exportedComplexity, walkerVars>>

repoVars ==
  <<entries, repoRoot, runPc, dirStack, files, filePc, batchStart, batchesRun,
    fileAnalyses, errorLog, failedDirs, report>>

namingVars == <<contextStack, namedFunctions, generated>>

runsVars == <<sharedRoot, runs>>

vars == <<detectorVars, analyzerVars, repoVars, namingVars, runsVars>>

(***************************************************************************)
(* DuplicationDetector.findDuplicatedCode (duplication-detector.ts 7-95)   *)
(***************************************************************************)
EndLine(f) == f.startLine + f.lines

(* otherFunc.startLine <= func.startLine &&                                *)
(* otherFunc.startLine + otherFunc.lines >= func.startLine + func.lines    *)
Contains(a, b) == a.startLine <= b.startLine /\ EndLine(a) >= EndLine(b)

(* The comparator given to sort (lines 12-17). *)
compare(a, b) ==
  IF Contains(a, b) THEN -1
  ELSE IF Contains(b, a) THEN 1
  ELSE a.startLine - b.startLine

(* Whether the record at index i is placed before the one at index j.      *)
(* Where the comparator answers "a before b" for both orders of a pair     *)
(* (equal ranges) the order is the engine's: the pair is kept or reversed. *)
PlacedBefore(fs, engine, i, j) ==
  IF compare(fs[i], fs[j]) < 0 /\ compare(fs[j], fs[i]) < 0
  THEN (IF engine = "keep" THEN i < j ELSE i > j)
  ELSE compare(fs[i], fs[j]) < 0 \/ (compare(fs[i], fs[j]) = 0 /\ i < j)

(* The sort with the comparator's sign swapped: innermost first. *)
SortInnermostFirst(fs, engine) ==
  LET place(i) == 1 + Cardinality({j \in DOMAIN fs : j # i /\ PlacedBefore(fs, engine, i, j)})
  IN  [k \in DOMAIN fs |-> CHOOSE i \in DOMAIN fs : place(i) = k]

SortFunctions(fs, engine) ==
  LET place(i) == 1 + Cardinality({j \in DOMAIN fs : j # i /\ PlacedBefore(fs, engine, j, i)})
  IN  [k \in DOMAIN fs |-> CHOOSE i \in DOMAIN fs : place(i) = k]

(* Lines 25-32: the number of records placed before position k of the      *)
(* sorted list that contain the record at k.                               *)
LevelAt(fs, sorted, k) ==
  Cardinality({m \in 1..(k - 1) : Contains(fs[sorted[m]], fs[sorted[k]])})

(* Lines 20-38: the records with text, bucketed by level; a level's bucket *)
(* is created when its first record is met.                                *)
RECURSIVE GroupByLevel(_, _, _, _)
GroupByLevel(fs, sorted, k, groups) ==
  IF k > Len(sorted) THEN groups
  ELSE IF fs[sorted[k]].code = <<>> THEN GroupByLevel(fs, sorted, k + 1, groups)
  ELSE LET level == LevelAt(fs, sorted, k)
           at    == {g \in DOMAIN groups : groups[g].level = level}
       IN  IF at = {}
           THEN GroupByLevel(fs, sorted, k + 1,
                             Append(groups, [level |-> level, funcs |-> <<sorted[k]>>]))
           ELSE GroupByLevel(fs, sorted, k + 1,
                  [groups EXCEPT ![CHOOSE g \in at : TRUE].funcs = Append(@, sorted[k])])

(* Lines 52, 63, 74: the 0-based line interval of a record. *)
LineInterval(f) == <<f.startLine - 1, f.startLine - 1 + f.lines - 1>>

(* Lines 58-68: the first group of the level, in insertion order, that the *)
(* fingerprint is similar to and whose similarity reaches the threshold;   *)
(* 0 when there is none.  The second argument of the similarity is the     *)
(* group's key in the map.                                                 *)
FindSimilar(map, level, fingerprint, normalizedCode) ==
  LET hits == {e \in DOMAIN map :
                 /\ map[e].level = level
                 /\ areFingerprintsSimilar(fingerprint, map[e].fingerprint)
                 /\ ReachesThreshold(
                      calculateSimilarityOptimized(normalizedCode, map[e].fingerprint))}
  IN  IF hits = {} THEN 0 ELSE SetMin(hits)

AddOccurrence(map, e, f) ==
  [map EXCEPT ![e].count = @ + 1, ![e].indexes = Append(@, LineInterval(f))]

(* codeMap.set(fingerprint, ...): a key already present keeps its place    *)
(* and gets the new value.                                                 *)
MapSet(map, entry) ==
  LET at == {e \in DOMAIN map : map[e].fingerprint = entry.fingerprint}
  IN  IF at = {} THEN Append(map, entry)
      ELSE [map EXCEPT ![CHOOSE e \in at : TRUE] = entry]

(* Lines 42-78 for one record at one level. *)
ProcessRecord(map, level, f) ==
  LET functionBody   == extractFunctionBody(f.code)
      normalizedCode == Slice(normalizeCode(functionBody), 0, MAX_CODE_LENGTH)
      fingerprint    == generateFingerprint(normalizedCode)
      exact          == {e \in DOMAIN map : map[e].fingerprint = fingerprint}
      similar        == FindSimilar(map, level, fingerprint, normalizedCode)
  IN  IF functionBody = NoBody \/ functionBody = <<>> THEN map
      ELSE IF exact # {} /\ map[CHOOSE e \in exact : TRUE].level = level
           THEN AddOccurrence(map, CHOOSE e \in exact : TRUE, f)
      ELSE IF similar # 0 THEN AddOccurrence(map, similar, f)
      ELSE MapSet(map, [fingerprint |-> fingerprint, count |-> 1, lines |-> f.lines,
                        indexes |-> <<LineInterval(f)>>, level |-> level])

(* Lines 82-92: the 0-based lines of every occurrence but the first of a   *)
(* group with more than one occurrence.                                    *)
LinesToFlag(map) ==
  UNION {UNION {map[e].indexes[k][1]..map[e].indexes[k][2] : k \in 2..Len(map[e].indexes)} :
         e \in {x \in DOMAIN map : map[x].count > 1}}

MarkFlags(flags, map) ==
  [i \in DOMAIN flags |-> flags[i] \/ (i - 1) \in LinesToFlag(map)]

(* A count per occurrence instead of per flag: the lines of every          *)
(* occurrence but the first, added up.                                     *)
CountOccurrenceLines(flags) ==
  SumSeq([e \in DOMAIN codeMap |->
            IF codeMap[e].count > 1
            THEN SumSeq([k \in 1..(Len(codeMap[e].indexes) - 1) |->
                           codeMap[e].indexes[k + 1][2] - codeMap[e].indexes[k + 1][1] + 1])
            ELSE 0])

CountFlags(flags) == Cardinality({i \in DOMAIN flags : flags[i]})

(* analyzeFile (traverser.test.ts 221): total of the function lines *)
TotalLines(fs) == SumSeq([i \in DOMAIN fs |-> fs[i].lines])

(* analyzeFile (traverser.test.ts 234); the quotient is kept as a whole    *)
(* number of percent, rounded down.                                        *)
Percentage(dup, total) == IF total > 0 THEN (dup * 100) \div total ELSE 0

(***************************************************************************)
(* Actions of the detector: one findDuplicatedCode call, step by step, as  *)
(* analyzeFile makes it (traverser.test.ts 221-234).  The detector object  *)
(* is shared by all the analyzeFile calls of a RepositoryAnalyzer, so a    *)
(* second call on the same records is a second file with the same          *)
(* functions.                                                              *)
(***************************************************************************)
NoReturn == -1

(* A map that outlives the call: what the call would start from if the    *)
(* map were a field of the detector.                                       *)
KeptCodeMap == codeMap

(* Line 8: const codeMap = new Map() *)
NewCodeMap == <<>>

(* Line 9: new Array(totalFileLines).fill(false) *)
NewFlags(total) == [i \in 1..total |-> FALSE]

(* Lines 41-79 for the records of one level group, from position k on. *)
RECURSIVE ProcessGroup(_, _, _, _, _)
ProcessGroup(map, fs, level, funcs, k) ==
  IF k > Len(funcs) THEN map
  ELSE ProcessGroup(ProcessRecord(map, level, fs[funcs[k]]), fs, level, funcs, k + 1)

RECURSIVE ProcessGroups(_, _, _, _)
ProcessGroups(map, fs, groups, g) ==
  IF g > Len(groups) THEN map
  ELSE ProcessGroups(ProcessGroup(map, fs, groups[g].level, groups[g].funcs, 1),
                     fs, groups, g + 1)

(* Lines 7-95: the value one findDuplicatedCode call returns. *)
findDuplicatedCode(fs, engine, total) ==
  CountFlags(MarkFlags(NewFlags(total),
                       ProcessGroups(NewCodeMap, fs,
                                     GroupByLevel(fs, SortFunctions(fs, engine), 1, <<>>),
                                     1)))

CursorDone == cursor[1] > Len(levelGroups)

CursorNext ==
  IF cursor[2] < Len(levelGroups[cursor[1]].funcs)
  THEN <<cursor[1], cursor[2] + 1>>
  ELSE <<cursor[1] + 1, 1>>

DetectorStart ==
  /\ functions \in FunctionLists(MaxFuncs)
  /\ sortEngine \in {"keep", "reverse"}
  /\ totalFileLines = 0
  /\ sortedFunctions = <<>>
  /\ levelGroups = <<>>
  /\ codeMap = <<>>
  /\ duplicatedLineFlags = <<>>
  /\ cursor = <<1, 1>>
  /\ detectorPc = "collected"
  /\ duplicatedLines = NoReturn
  /\ duplicationPercentage = NoReturn
  /\ calls = 0
  /\ firstResult = NoReturn

(* A file whose functions have the long texts. *)
SimilarityStart ==
  /\ functions \in LongFunctionLists(MaxFuncs)
  /\ sortEngine \in {"keep", "reverse"}
  /\ totalFileLines = 0
  /\ sortedFunctions = <<>>
  /\ levelGroups = <<>>
  /\ codeMap = <<>>
  /\ duplicatedLineFlags = <<>>
  /\ cursor = <<1, 1>>
  /\ detectorPc = "collected"
  /\ duplicatedLines = NoReturn
  /\ duplicationPercentage = NoReturn
  /\ calls = 0
  /\ firstResult = NoReturn

(* A file some of whose functions have a text without extractable body. *)
ExtractionStart ==
  /\ functions \in UnextractedFunctionLists(MaxFuncs)
  /\ sortEngine \in {"keep", "reverse"}
  /\ totalFileLines = 0
  /\ sortedFunctions = <<>>
  /\ levelGroups = <<>>
  /\ codeMap = <<>>
  /\ duplicatedLineFlags = <<>>
  /\ cursor = <<1, 1>>
  /\ detectorPc = "collected"
  /\ duplicatedLines = NoReturn
  /\ duplicationPercentage = NoReturn
  /\ calls = 0
  /\ firstResult = NoReturn

(* Lines 7-38: entry, sort and grouping. *)
FindDuplicatedCodeEnter ==
  /\ detectorPc \in {"collected", "done"}
  /\ calls < 2
  /\ calls' = calls + 1
  /\ totalFileLines' = TotalLines(functions)
  /\ codeMap' = NewCodeMap
  /\ duplicatedLineFlags' = NewFlags(TotalLines(functions))
  /\ sortedFunctions' = SortFunctions(functions, sortEngine)
  /\ levelGroups' = GroupByLevel(functions, SortFunctions(functions, sortEngine), 1, <<>>)
  /\ cursor' = <<1, 1>>
  /\ detectorPc' = "process"
  /\ duplicatedLines' = NoReturn
  /\ duplicationPercentage' = NoReturn
  /\ UNCHANGED <<functions, sortEngine, firstResult>>
  /\ UNCHANGED <<analyzerVars, repoVars, namingVars, runsVars>>

(* Lines 41-79: the next record of the next level group. *)
ProcessNextFunction ==
  /\ detectorPc = "process"
  /\ ~CursorDone
  /\ codeMap' = ProcessRecord(codeMap, levelGroups[cursor[1]].level,
                              functions[levelGroups[cursor[1]].funcs[cursor[2]]])
  /\ cursor' = CursorNext
  /\ UNCHANGED <<functions, totalFileLines, sortEngine, sortedFunctions, levelGroups,
                 duplicatedLineFlags, detectorPc, duplicatedLines,
                 duplicationPercentage, calls, firstResult>>
  /\ UNCHANGED <<analyzerVars, repoVars, namingVars, runsVars>>

(* Lines 81-92 *)
MarkDuplicatedLines ==
  /\ detectorPc = "process"
  /\ CursorDone
  /\ duplicatedLineFlags' = MarkFlags(duplicatedLineFlags, codeMap)
  /\ detectorPc' = "marked"
  /\ UNCHANGED <<functions, totalFileLines, sortEngine, sortedFunctions, levelGroups,
                 codeMap, cursor, duplicatedLines, duplicationPercentage, calls,
                 firstResult>>
  /\ UNCHANGED <<analyzerVars, repoVars, namingVars, runsVars>>

(* Line 94, and analyzeFile's use of the returned count. *)
ReturnDuplicatedLines ==
  /\ detectorPc = "marked"
  /\ duplicatedLines' = CountFlags(duplicatedLineFlags)
  /\ duplicationPercentage' = Percentage(CountFlags(duplicatedLineFlags), totalFileLines)
  /\ firstResult' = IF calls = 1 THEN CountFlags(duplicatedLineFlags) ELSE firstResult
  /\ detectorPc' = "done"
  /\ UNCHANGED <<functions, totalFileLines, sortEngine, sortedFunctions, levelGroups,
                 codeMap, duplicatedLineFlags, cursor, calls>>
  /\ UNCHANGED <<analyzerVars, repoVars, namingVars, runsVars>>

DetectorNext ==
  \/ FindDuplicatedCodeEnter
  \/ ProcessNextFunction
  \/ MarkDuplicatedLines
  \/ ReturnDuplicatedLines

DetectorIdle ==
  /\ functions = <<>>
  /\ sortEngine = "keep"
  /\ totalFileLines = 0
  /\ sortedFunctions = <<>>
  /\ levelGroups = <<>>
  /\ codeMap = <<>>
  /\ duplicatedLineFlags = <<>>
  /\ cursor = <<1, 1>>
  /\ detectorPc = "idle"
  /\ duplicatedLines = NoReturn
  /\ duplicationPercentage = NoReturn
  /\ calls = 0
  /\ firstResult = NoReturn

(***************************************************************************)
(* Properties of the detector                                              *)
(***************************************************************************)
HasLevel(i) == \E g \in DOMAIN levelGroups : i \in Range(levelGroups[g].funcs)

LevelOf(i) ==
  levelGroups[CHOOSE g \in DOMAIN levelGroups : i \in Range(levelGroups[g].funcs)].level

(* g's line range lies in f's and is not the same range *)
StrictlyWithin(g, f) == Contains(f, g) /\ ~Contains(g, f)

PartlyOverlap(a, b) ==
  /\ a.startLine < b.startLine
  /\ b.startLine < EndLine(a)
  /\ EndLine(a) < EndLine(b)

(* C1: when findDuplicatedCode has returned to analyzeFile, the count of   *)
(* duplicated lines is between 0 and the total of the function lines it    *)
(* was given, it is no more than the number of distinct flagged lines that *)
(* lie below that total (a line is counted once), and the file's           *)
(* duplicationPercentage is between 0 and 100 and is 0 when the total is 0 *)
C1_DuplicationWithinBounds ==
  detectorPc = "done" =>
    /\ 0 <= duplicatedLines
    /\ duplicatedLines <= totalFileLines
    /\ duplicatedLines
         <= Cardinality(LinesToFlag(codeMap) \cap (0..(totalFileLines - 1)))
    /\ 0 <= duplicationPercentage
    /\ duplicationPercentage <= 100
    /\ (totalFileLines = 0 => duplicationPercentage = 0)

(* A file with duplicated lines whose functions both nest and overlap. *)
C1_Witness ==
  /\ detectorPc = "done"
  /\ duplicatedLines > 0
  /\ \E i, j \in DOMAIN functions : StrictlyWithin(functions[j], functions[i])
  /\ \E i, j \in DOMAIN functions : PartlyOverlap(functions[i], functions[j])

(* C9: once the levels are computed, a function whose line range is        *)
(* strictly contained in the range of another function has a greater       *)
(* level than that function.                                               *)
C9_NestedHasGreaterLevel ==
  detectorPc # "collected" =>
    \A i, j \in DOMAIN functions :
      (HasLevel(i) /\ HasLevel(j) /\ StrictlyWithin(functions[j], functions[i]))
        => LevelOf(j) > LevelOf(i)

C9_Witness ==
  /\ detectorPc = "done"
  /\ \E i, j \in DOMAIN functions :
       /\ HasLevel(i) /\ HasLevel(j)
       /\ StrictlyWithin(functions[j], functions[i])
       /\ LevelOf(j) > LevelOf(i)

(* C10: the second findDuplicatedCode call on a detector, given the same   *)
(* records and total as the first call, returns the count the first call   *)
(* returned.                                                               *)
C10_SecondCallSameCount ==
  (detectorPc = "done" /\ calls = 2) => duplicatedLines = firstResult

C10_Witness ==
  /\ detectorPc = "done"
  /\ calls = 2
  /\ duplicatedLines > 0
  /\ duplicatedLines = firstResult

(* Records i and j are the two occurrences of one top-level function: the  *)
(* same text and size, j after the end of i, neither within another        *)
(* record, and no other record of the file has the text of another record. *)
TwoIdenticalTopLevel(i, j) ==
  /\ i # j
  /\ functions[i].code # <<>>
  /\ functions[i].code = functions[j].code
  /\ functions[i].lines = functions[j].lines
  /\ EndLine(functions[i]) <= functions[j].startLine
  /\ \A k \in DOMAIN functions \ {i, j} :
       /\ functions[k].code # functions[i].code
       /\ ~Contains(functions[k], functions[i])
       /\ ~Contains(functions[k], functions[j])
       /\ \A m \in DOMAIN functions \ {i, j, k} : functions[m].code # functions[k].code

(* C11: when a file holds two identical top-level functions and no other   *)
(* duplicate, wherever the two are located, the lines flagged are exactly  *)
(* the lines of the later one, and duplicationPercentage is that number    *)
(* over the total of function lines (5 of 12 in the scenario; here any     *)
(* size the records of the model have).                                    *)
C11_LaterOccurrenceFlagged ==
  detectorPc = "done" =>
    \A i, j \in DOMAIN functions :
      TwoIdenticalTopLevel(i, j) =>
        /\ duplicatedLines = functions[j].lines
        /\ duplicationPercentage = Percentage(functions[j].lines, totalFileLines)

(* The records other than i whose line range strictly contains the range   *)
(* of record i.                                                            *)
StrictContainersOf(i) ==
  {j \in DOMAIN functions \ {i} : StrictlyWithin(functions[i], functions[j])}

(* C21: the level given to a function is the number of other functions of  *)
(* the file whose line range strictly contains its range; two functions    *)
(* with the same line range get the same level.                            *)
C21_LevelCountsStrictContainers ==
  detectorPc # "collected" =>
    /\ \A i \in DOMAIN functions :
         HasLevel(i) => LevelOf(i) = Cardinality(StrictContainersOf(i))
    /\ \A i, j \in DOMAIN functions :
         (HasLevel(i) /\ HasLevel(j)
            /\ functions[i].startLine = functions[j].startLine
            /\ functions[i].lines = functions[j].lines)
           => LevelOf(i) = LevelOf(j)

(* Record j is handled after record i in the group of their level. *)
LaterInLevel(i, j) ==
  \E g \in DOMAIN levelGroups :
    \E a, b \in DOMAIN levelGroups[g].funcs :
      a < b /\ levelGroups[g].funcs[a] = i /\ levelGroups[g].funcs[b] = j

(* The fingerprint line 46 computes for a record whose body is extracted. *)
FingerprintOf(f) ==
  generateFingerprint(Slice(normalizeCode(extractFunctionBody(f.code)), 0, MAX_CODE_LENGTH))

HasBody(f) == extractFunctionBody(f.code) \notin {NoBody, <<>>}

(* Every line of record f that the flag array has is flagged. *)
LinesFlagged(f) ==
  \A l \in LineInterval(f)[1]..LineInterval(f)[2] :
    l < Len(duplicatedLineFlags) => duplicatedLineFlags[l + 1]

(* A record of another level than i with the fingerprint of i. *)
SameFingerprintAtOtherLevel(i) ==
  \E k \in DOMAIN functions :
    /\ HasLevel(k) /\ HasBody(functions[k])
    /\ LevelOf(k) # LevelOf(i)
    /\ FingerprintOf(functions[k]) = FingerprintOf(functions[i])

(* C22: the groups are kept per level: of two functions of one level with  *)
(* equal fingerprints the later one has its lines flagged, whatever the    *)
(* fingerprints of the functions of the other levels are.                  *)
C22_GroupsKeptPerLevel ==
  detectorPc = "done" =>
    \A i, j \in DOMAIN functions :
      (/\ LaterInLevel(i, j)
       /\ HasBody(functions[i]) /\ HasBody(functions[j])
       /\ FingerprintOf(functions[i]) = FingerprintOf(functions[j]))
        => LinesFlagged(functions[j])

NormalizedCodeOf(f) ==
  Slice(normalizeCode(extractFunctionBody(f.code)), 0, MAX_CODE_LENGTH)

(* Record j differs in fingerprint from record i but is similar to it by   *)
(* the fingerprint test, and the windowed similarity of its normalized     *)
(* code to that of i reaches the threshold.                                *)
SimilarNotEqual(i, j) ==
  /\ HasBody(functions[i]) /\ HasBody(functions[j])
  /\ FingerprintOf(functions[i]) # FingerprintOf(functions[j])
  /\ areFingerprintsSimilar(FingerprintOf(functions[j]), FingerprintOf(functions[i]))
  /\ ReachesThreshold(calculateSimilarityOptimized(NormalizedCodeOf(functions[j]),
                                                   NormalizedCodeOf(functions[i])))

(* C23: a function that is similar to, but differs in fingerprint from,    *)
(* the function that opened a group of its level, with a windowed          *)
(* similarity of at least 0.8 to that group's normalized code, joins the   *)
(* group and has its lines flagged.                                        *)
C23_SimilarJoinsGroup ==
  detectorPc = "done" =>
    \A i, j \in DOMAIN functions :
      (/\ LaterInLevel(i, j)
       /\ \A k \in DOMAIN functions : ~LaterInLevel(k, i)
       /\ SimilarNotEqual(i, j))
        => LinesFlagged(functions[j])

(* The records without record i, in their order. *)
Without(fs, i) == [k \in 1..(Len(fs) - 1) |-> IF k < i THEN fs[k] ELSE fs[k + 1]]

(* Record i has a text from which no body is extracted. *)
Unextracted(i) == functions[i].code # <<>> /\ ~HasBody(functions[i])

(* C24: a function whose body text cannot be extracted takes no part in    *)
(* the detection: none of its lines is flagged as a later occurrence, and  *)
(* the count returned is the count returned for the same total without it. *)
C24_UnextractedIsExcluded ==
  detectorPc = "done" =>
    \A i \in DOMAIN functions :
      Unextracted(i) =>
        /\ \A e \in DOMAIN codeMap :
             \A k \in 2..Len(codeMap[e].indexes) :
               codeMap[e].indexes[k] # LineInterval(functions[i])
                 \/ \E j \in DOMAIN functions \ {i} :
                      /\ HasBody(functions[j])
                      /\ LineInterval(functions[j]) = LineInterval(functions[i])
        /\ duplicatedLines
             = findDuplicatedCode(Without(functions, i), sortEngine, totalFileLines)

(***************************************************************************)
(* The tree walker (traverser.ts 31-123) on a tree of nodes.               *)
(* Node k of a tree is tree[k]; the nodes are numbered in pre-order, so    *)
(* the children of a node, in slot order, are its children by number.      *)
(***************************************************************************)
MaxNodes == 4

CONTROL_FLOW_TYPES ==
  {"IfStatement", "SwitchCase", "ForStatement", "WhileStatement", "DoWhileStatement",
   "CatchClause", "ConditionalExpression", "ForInStatement", "ForOfStatement",
   "LogicalExpression"}

NODE_TYPES_TO_SKIP ==
  {"StringLiteral", "NumericLiteral", "BooleanLiteral", "NullLiteral", "RegExpLiteral"}

FUNCTION_TYPES == {"FunctionDeclaration", "ArrowFunctionExpression", "FunctionExpression"}

(* The node types the trees of the model are built from. *)
NodeTypes ==
  {"FunctionDeclaration", "IfStatement", "LogicalExpression", "BlockStatement",
   "StringLiteral"}

NoName == "<none>"

(* A name is a sequence of the pieces it is put together from; an absent   *)
(* name (undefined, or an id that is null) is the empty sequence.          *)
NoId == <<>>

RECURSIVE AncestorsOrSelf(_, _)
AncestorsOrSelf(parent, k) ==
  IF k = 0 THEN {} ELSE {k} \cup AncestorsOrSelf(parent, parent[k])

(* Parent maps of the ordered trees with n nodes numbered in pre-order. *)
TreeShapes(n) ==
  {parent \in [1..n -> 0..(n - 1)] :
     /\ parent[1] = 0
     /\ \A k \in 2..n : parent[k] \in AncestorsOrSelf(parent, k - 1)}

(* A function declaration carries its identifier; the other nodes have no  *)
(* id.  No function of these trees is async or a generator.                *)
MakeNode(type, parent) ==
  [type |-> type, parent |-> parent, async |-> FALSE, generator |-> FALSE,
   id |-> IF type = "FunctionDeclaration" THEN <<"declared">> ELSE NoId]

(* The trees a parser can give: a literal has no child node. *)
Trees(maxNodes) ==
  UNION {{[k \in 1..n |-> MakeNode(types[k], parent[k])] :
            types \in [1..n -> NodeTypes],
            parent \in {q \in TreeShapes(n) : TRUE}} :
         n \in 1..maxNodes}

WellFormed(tree) ==
  \A k \in DOMAIN tree :
    tree[k].parent # 0 => tree[tree[k].parent].type \notin NODE_TYPES_TO_SKIP

Children(tree, n) == {k \in DOMAIN tree : tree[k].parent = n}

Descendants(tree, n) == {k \in DOMAIN tree : n \in AncestorsOrSelf([j \in DOMAIN tree |-> tree[j].parent], k)}

(* The nodes traverse handles when started at node n, in the order of the  *)
(* calls: a literal returns at once (line 63), any other node is handled   *)
(* and then its children are walked in slot order (lines 108-122).         *)
RECURSIVE Walk(_, _)
RECURSIVE WalkAll(_, _, _)
Walk(tree, n) ==
  IF tree[n].type \in NODE_TYPES_TO_SKIP THEN <<>>
  ELSE <<n>> \o WalkAll(tree, Children(tree, n), n)

WalkAll(tree, rest, n) ==
  IF rest = {} THEN <<>>
  ELSE LET first == SetMin(rest)
       IN  Walk(tree, first) \o WalkAll(tree, rest \ {first}, n)

(* The nodes onControlFlow is called with (lines 103-105), in call order. *)
ControlFlowCalls(tree, n) ==
  SelectSeq(Walk(tree, n), LAMBDA k : tree[k].type \in CONTROL_FLOW_TYPES)

(* The loc of a node: every node starts on a line of its own and ends on   *)
(* the line of its last descendant.                                        *)
LocOf(tree, n) ==
  [start |-> n, end |-> CHOOSE k \in Descendants(tree, n) :
                          \A j \in Descendants(tree, n) : j <= k]

(***************************************************************************)
(* FunctionAnalyzer (unnamed/part_011 97-173)                              *)
(***************************************************************************)
COMPLEXITY_THRESHOLD == 10

LINES_THRESHOLD == 50

NoAnalysis == [none |-> TRUE]

NoLoc == [none |-> TRUE]

(* The counted types with the logical expression left out. *)
CountedStatementTypes ==
  {"IfStatement", "SwitchCase", "ForStatement", "WhileStatement", "DoWhileStatement",
   "CatchClause", "ConditionalExpression", "ForInStatement", "ForOfStatement"}

(* The node types analyzeFunction's onControlFlow callback counts          *)
(* (lines 116-118).                                                        *)
CountedTypes ==
  {"IfStatement", "SwitchCase", "ForStatement", "WhileStatement", "DoWhileStatement",
   "CatchClause", "ConditionalExpression", "ForInStatement", "ForOfStatement",
   "LogicalExpression"}

(* A count that starts at 0 instead of the base complexity. *)
ComplexityWithoutBase(tree, n) ==
  Len(SelectSeq(ControlFlowCalls(tree, n), LAMBDA k : tree[k].type \in CountedTypes))

(* Lines 113-122: 1, plus one for every counted node the walk reports. *)
Complexity(tree, n) ==
  1 + Len(SelectSeq(ControlFlowCalls(tree, n), LAMBDA k : tree[k].type \in CountedTypes))

calculateFunctionSize(tree, n, hasLoc) ==
  IF ~hasLoc THEN 0 ELSE LocOf(tree, n).end - LocOf(tree, n).start + 1

determineFunctionType(node) ==
  IF node.type = "ArrowFunctionExpression" THEN "arrow"
  ELSE IF node.async THEN "promise"
  ELSE IF node.generator THEN "array"
  ELSE "function"

(* Lines 157-172.  The callback is called for control-flow nodes only      *)
(* (traverser.ts 103), so a TryStatement never reaches it.                 *)
analyzeFunctionCharacteristics(tree, n) ==
  (IF tree[n].async THEN <<"async">> ELSE <<>>)
  \o (IF tree[n].generator THEN <<"generator">> ELSE <<>>)
  \o [i \in DOMAIN SelectSeq(ControlFlowCalls(tree, n),
                             LAMBDA k : tree[k].type \in {"ForOfStatement", "ForInStatement"}) |->
        IF tree[SelectSeq(ControlFlowCalls(tree, n),
                          LAMBDA k : tree[k].type \in {"ForOfStatement", "ForInStatement"})[i]].type
             = "ForOfStatement"
        THEN "for-of" ELSE "for-in"]

hasWarning(size, complexity) ==
  size > LINES_THRESHOLD \/ complexity > COMPLEXITY_THRESHOLD

analyzeFunction(tree, n, hasLoc) ==
  IF tree[n].type \notin FUNCTION_TYPES THEN NoAnalysis
  ELSE [name |-> IF tree[n].id # NoId THEN tree[n].id ELSE <<"anonymous">>,
        type |-> determineFunctionType(tree[n]),
        size |-> calculateFunctionSize(tree, n, hasLoc),
        complexity |-> Complexity(tree, n),
        characteristics |-> analyzeFunctionCharacteristics(tree, n),
        location |-> IF hasLoc THEN LocOf(tree, n) ELSE NoLoc]

NotAnalyzed == <<0, NoAnalysis>>

NotCounted == [node |-> 0, version |-> "none", value |-> 0]

(* No traverse call of analyzeFile is in progress. *)
WalkerIdle ==
  /\ parsed = <<>>
  /\ walkStack = <<>>
  /\ functionCalls = <<>>
  /\ walkPc = "idle"

AnalyzerStart ==
  /\ ast \in {t \in Trees(MaxNodes) : WellFormed(t)}
  /\ located \in BOOLEAN
  /\ analysis = NotAnalyzed
  /\ exportedComplexity = NotCounted
  /\ WalkerIdle

AnalyzerIdle ==
  /\ ast = <<>>
  /\ located = FALSE
  /\ analysis = NotAnalyzed
  /\ exportedComplexity = NotCounted
  /\ WalkerIdle

(* A call of analyzeFunction on a node of the tree. *)
AnalyzeFunction ==
  /\ \E n \in DOMAIN ast : analysis' = <<n, analyzeFunction(ast, n, located)>>
  /\ UNCHANGED <<ast, located, exportedComplexity, walkerVars>>
  /\ UNCHANGED <<detectorVars, repoVars, namingVars, runsVars>>

AnalyzerNext == AnalyzeFunction

(***************************************************************************)
(* The exported calculateComplexity.  The repository holds two versions of *)
(* it: one that counts the onControlFlow calls of a traversal              *)
(* (unnamed/part_015 725-735) and one that adds up the values of the       *)
(* children getChildren lists (contextual-naming-system.ts 450-569).       *)
(***************************************************************************)
(* The node types both versions take for control flow                      *)
(* (part_015 699-706, contextual-naming-system.ts 552-558).                *)
ControlFlowStatementTypes ==
  {"IfStatement", "SwitchCase", "ForStatement", "WhileStatement", "DoWhileStatement",
   "CatchClause", "ConditionalExpression"}

(* The keys of childProperties (contextual-naming-system.ts 454-506). *)
ChildPropertyTypes ==
  {"Program", "BlockStatement", "FunctionDeclaration", "ArrowFunctionExpression",
   "FunctionExpression", "IfStatement", "SwitchCase", "ForStatement", "WhileStatement",
   "DoWhileStatement", "TryStatement", "CatchClause", "ConditionalExpression",
   "CallExpression", "MemberExpression", "ObjectExpression", "ArrayExpression",
   "JSXElement", "JSXExpressionContainer", "VariableDeclaration", "VariableDeclarator",
   "ObjectProperty", "ClassMethod", "ClassProperty", "ExportDefaultDeclaration",
   "ExportNamedDeclaration", "ClassDeclaration", "ClassBody", "MethodDefinition",
   "Property", "AssignmentExpression", "BinaryExpression", "LogicalExpression",
   "UnaryExpression", "UpdateExpression", "NewExpression", "TaggedTemplateExpression",
   "TemplateLiteral", "SequenceExpression", "SpreadElement", "RestElement",
   "ArrayPattern", "ObjectPattern", "AssignmentPattern", "YieldExpression",
   "AwaitExpression", "ImportDeclaration", "ImportSpecifier", "ImportDefaultSpecifier",
   "ImportNamespaceSpecifier", "ExportSpecifier"}

RECURSIVE Ascending(_)
Ascending(S) == IF S = {} THEN <<>> ELSE <<SetMin(S)>> \o Ascending(S \ {SetMin(S)})

(* getChildren: the nodes in the slots listed for the node's type; the     *)
(* children of a node of the model stand for the nodes in those slots.     *)
getChildren(tree, n) ==
  IF tree[n].type \in ChildPropertyTypes THEN Ascending(Children(tree, n)) ELSE <<>>

(* contextual-naming-system.ts 538-569: 1, one more for a control-flow     *)
(* node, plus the value of every child; 1 for a literal.                   *)
RECURSIVE calculateComplexityOverChildren(_, _)
calculateComplexityOverChildren(tree, n) ==
  IF tree[n].type \in NODE_TYPES_TO_SKIP THEN 1
  ELSE 1 + (IF tree[n].type \in ControlFlowStatementTypes THEN 1 ELSE 0)
         + SumSeq([i \in DOMAIN getChildren(tree, n) |->
                     calculateComplexityOverChildren(tree, getChildren(tree, n)[i])])

(* part_015 640-723 with onControlFlow alone: the number of calls of the   *)
(* callback in the traversal started at n, which enters every child.       *)
RECURSIVE onControlFlowCalls(_, _)
onControlFlowCalls(tree, n) ==
  (IF tree[n].type \in ControlFlowStatementTypes THEN 1 ELSE 0)
  + SumSeq([i \in DOMAIN Ascending(Children(tree, n)) |->
              onControlFlowCalls(tree, Ascending(Children(tree, n))[i])])

(* part_015 725-735 *)
calculateComplexity(tree, n) == 1 + onControlFlowCalls(tree, n)

(* A call of the exported calculateComplexity on a node, in either version *)
CalculateComplexity ==
  /\ \E n \in DOMAIN ast :
       \/ exportedComplexity'
            = [node |-> n, version |-> "traverse", value |-> calculateComplexity(ast, n)]
       \/ exportedComplexity'
            = [node |-> n, version |-> "children",
               value |-> calculateComplexityOverChildren(ast, n)]
  /\ UNCHANGED <<ast, located, analysis, walkerVars>>
  /\ UNCHANGED <<detectorVars, repoVars, namingVars, runsVars>>

ComplexityNext == CalculateComplexity

(* C13: calculateComplexity called on a function node returns 1 plus the   *)
(* number of control-flow nodes of the node's subtree.                     *)
C13_ExportedComplexity ==
  (exportedComplexity.version # "none"
     /\ ast[exportedComplexity.node].type \in FUNCTION_TYPES) =>
    exportedComplexity.value
      = 1 + Cardinality({k \in Descendants(ast, exportedComplexity.node) :
                           ast[k].type \in ControlFlowStatementTypes})

(* C2: every record analyzeFunction returns has complexity >= 1. *)
C2_ComplexityAtLeastOne ==
  analysis[2] # NoAnalysis => analysis[2].complexity >= 1

(* A record for a function without control flow and without a location. *)
C2_Witness ==
  /\ analysis[2] # NoAnalysis
  /\ analysis[2].complexity = 1
  /\ analysis[2].location = NoLoc
  /\ Children(ast, analysis[1]) = {}

(* The nodes of the subtree of n that are of the kinds the walker reports  *)
(* as control flow.                                                        *)
ControlFlowNodesBelow(tree, n) ==
  {k \in Descendants(tree, n) : tree[k].type \in CONTROL_FLOW_TYPES}

(* The nodes of the subtree of n that lie in a function nested in n. *)
InNestedFunction(tree, n) ==
  {k \in Descendants(tree, n) :
     \E g \in Descendants(tree, n) \ {n} :
       tree[g].type \in FUNCTION_TYPES /\ k \in Descendants(tree, g)}

(* C12: the complexity analyzeFunction records for a function is 1 plus    *)
(* the number of nodes of the ten control-flow kinds that the walker       *)
(* reports in the walk of the function; one if and one && give 3.          *)
C12_ComplexityCountsControlFlow ==
  analysis[2] # NoAnalysis =>
    /\ analysis[2].complexity
         = 1 + Cardinality(ControlFlowNodesBelow(ast, analysis[1]))
    /\ analysis[2].complexity = 1 + Len(ControlFlowCalls(ast, analysis[1]))

(* A function whose body holds one if and one logical expression. *)
C12_Witness ==
  /\ analysis[2] # NoAnalysis
  /\ analysis[2].complexity = 3
  /\ \E i, l \in Descendants(ast, analysis[1]) :
       /\ ast[i].type = "IfStatement"
       /\ ast[l].type = "LogicalExpression"
       /\ ControlFlowNodesBelow(ast, analysis[1]) = {i, l}

(* C18: the complexity of a function counts the control-flow nodes of its  *)
(* subtree that lie outside the functions nested in it.                    *)
C18_NestedFunctionsCountedApart ==
  analysis[2] # NoAnalysis =>
    analysis[2].complexity
      = 1 + Cardinality(ControlFlowNodesBelow(ast, analysis[1])
                          \ InNestedFunction(ast, analysis[1]))

(***************************************************************************)
(* The traversal analyzeFile makes (traverser.test.ts 197-218): traverse   *)
(* with onFunction alone, on trees whose nodes carry what getParentInfo    *)
(* and the naming system read.  The identifier and callee of a node are    *)
(* fields of the node; they are leaves in which no callback is called.     *)
(***************************************************************************)
MaxProgramNodes == 3

NoCallee == [type |-> "none", name |-> NoId, object |-> NoId, property |-> NoId]

(* items.map(...) and items?.map(...) *)
MemberCallee ==
  [type |-> "MemberExpression", name |-> NoId, object |-> <<"items">>,
   property |-> <<"map">>]

OptionalMemberCallee ==
  [type |-> "OptionalMemberExpression", name |-> NoId, object |-> <<"items">>,
   property |-> <<"map">>]

Form(type, async, generator, id, name, callee) ==
  [type |-> type, async |-> async, generator |-> generator, id |-> id, name |-> name,
   callee |-> callee]

(* The node forms the trees are built from.  name is the name of the       *)
(* identifier the node binds: id.name of a declarator, key.name of a       *)
(* property, left.name of an assignment.                                   *)
NodeForms ==
  {Form("FunctionDeclaration", FALSE, FALSE, <<"declared">>, NoId, NoCallee),
   Form("ArrowFunctionExpression", FALSE, FALSE, NoId, NoId, NoCallee),
   Form("ArrowFunctionExpression", TRUE, FALSE, NoId, NoId, NoCallee),
   Form("FunctionExpression", FALSE, FALSE, NoId, NoId, NoCallee),
   Form("FunctionExpression", FALSE, TRUE, NoId, NoId, NoCallee),
   Form("FunctionExpression", FALSE, FALSE, <<"named">>, NoId, NoCallee),
   Form("VariableDeclarator", FALSE, FALSE, NoId, <<"bound">>, NoCallee),
   Form("ObjectProperty", FALSE, FALSE, NoId, <<"member">>, NoCallee),
   Form("AssignmentExpression", FALSE, FALSE, NoId, <<"assigned">>, NoCallee),
   Form("ExportDefaultDeclaration", FALSE, FALSE, NoId, NoId, NoCallee),
   Form("CallExpression", FALSE, FALSE, NoId, NoId, MemberCallee),
   Form("OptionalCallExpression", FALSE, FALSE, NoId, NoId, OptionalMemberCallee),
   Form("BlockStatement", FALSE, FALSE, NoId, NoId, NoCallee),
   Form("StringLiteral", FALSE, FALSE, NoId, NoId, NoCallee)}

MakeProgramNode(form, parent) ==
  [type |-> form.type, parent |-> parent, async |-> form.async,
   generator |-> form.generator, id |-> form.id, name |-> form.name,
   callee |-> form.callee]

(* The trees of n nodes. *)
ProgramTrees(n) ==
  {[k \in 1..n |-> MakeProgramNode(forms[k], parent[k])] :
     forms \in [1..n -> NodeForms],
     parent \in TreeShapes(n)}

(***************************************************************************)
(* getParentInfo (parent-info.ts 4-59).  p = 0 is an undefined parent.     *)
(***************************************************************************)
NoParentInfo == [type |-> "undefined", name |-> NoId, method |-> NoId, objectName |-> NoId]

ParentInfo(type, name, method, objectName) ==
  [type |-> type, name |-> name, method |-> method, objectName |-> objectName]

(* The keys of nameMappings that name the function by a name of the parent *)
NameMappingTypes ==
  {"VariableDeclarator", "ObjectProperty", "ClassMethod", "AssignmentExpression",
   "ObjectMethod", "ClassProperty", "JSXAttribute"}

(* Lines 23-35: the name of the declaration of a named export. *)
ExportedDeclarationName(tree, p) ==
  IF Children(tree, p) = {} THEN NoId
  ELSE LET declaration == SetMin(Children(tree, p))
       IN  IF tree[declaration].type = "VariableDeclaration"
           THEN IF Children(tree, declaration) = {} THEN NoId
                ELSE tree[SetMin(Children(tree, declaration))].name
           ELSE tree[declaration].id

(* Lines 37-56 with every name the table and the export rule give left out *)
getParentInfoOfCalls(tree, p) ==
  IF p # 0 /\ tree[p].type = "CallExpression" /\ tree[p].callee.type = "MemberExpression"
  THEN ParentInfo("CallExpression", tree[p].callee.property, tree[p].callee.property,
                  tree[p].callee.object)
  ELSE NoParentInfo

getParentInfo(tree, p) ==
  IF p = 0 THEN NoParentInfo
  ELSE IF tree[p].type \in NameMappingTypes
  THEN ParentInfo(tree[p].type, tree[p].name, NoId, NoId)
  ELSE IF tree[p].type = "ExportDefaultDeclaration"
  THEN ParentInfo("ExportDefaultDeclaration", <<"default">>, NoId, NoId)
  ELSE IF tree[p].type = "ExportNamedDeclaration" /\ ExportedDeclarationName(tree, p) # NoId
  THEN ParentInfo("ExportNamedDeclaration", ExportedDeclarationName(tree, p), NoId, NoId)
  ELSE IF tree[p].type = "CallExpression" /\ tree[p].callee.type = "Identifier"
  THEN ParentInfo("CallExpression", tree[p].callee.name, tree[p].callee.name, NoId)
  ELSE IF tree[p].type = "CallExpression"
          /\ tree[p].callee.type \in {"MemberExpression", "OptionalMemberExpression"}
  THEN ParentInfo("CallExpression",
                  IF tree[p].callee.property # NoId THEN tree[p].callee.property
                  ELSE <<"unknown">>,
                  IF tree[p].callee.property # NoId THEN tree[p].callee.property
                  ELSE <<"unknown">>,
                  IF tree[p].callee.object # NoId THEN tree[p].callee.object
                  ELSE <<"object">>)
  ELSE NoParentInfo

(***************************************************************************)
(* ContextualNamingSystem (contextual-naming-system.ts 1-114), as traverse *)
(* uses it: a new instance for every traverse call, so the context stack   *)
(* holds the context of the parent alone and the name cache is empty.      *)
(***************************************************************************)
ARRAY_METHODS ==
  {<<"map">>, <<"filter">>, <<"forEach">>, <<"find">>, <<"some">>, <<"every">>,
   <<"reduce">>}

NoContext == [type |-> "null", objectName |-> NoId, method |-> NoId]

(* Lines 30-67 and 99-105: the first extractor that gives a context.  The  *)
(* extractors read node.callee whatever the type of the node is; no node   *)
(* of the model has the expression slot the third extractor reads.         *)
extractContextFromNode(tree, p) ==
  IF tree[p].callee.type = "OptionalMemberExpression"
  THEN [type |-> "OptionalCallExpression",
        objectName |-> IF tree[p].callee.object # NoId THEN tree[p].callee.object
                       ELSE <<"object">>,
        method |-> tree[p].callee.property]
  ELSE IF tree[p].callee.type = "MemberExpression"
  THEN [type |-> "CallExpression",
        objectName |-> IF tree[p].callee.object # NoId THEN tree[p].callee.object
                       ELSE <<"object">>,
        method |-> tree[p].callee.property]
  ELSE NoContext

(* The method names of the model that start with "use". *)
UsePrefixed == {<<"useEffect">>}

(* Lines 12-28 and 78-97, for the context at the top of the stack. *)
generateName(context, node) ==
  IF context = NoContext THEN <<"anonymous">>
  ELSE IF context.type = "OptionalCallExpression"
  THEN context.objectName \o <<"?.">> \o context.method \o <<" callback">>
  ELSE IF context.type = "CallExpression"
  THEN IF context.method = NoId THEN <<"anonymous">>
       ELSE IF context.method \in {<<"then">>, <<"catch">>, <<"finally">>}
       THEN context.method \o <<" handler">>
       ELSE IF context.method \in ARRAY_METHODS \/ context.method \in UsePrefixed
       THEN context.method \o <<" callback">>
       ELSE context.objectName \o <<".">> \o context.method \o <<" callback">>
  ELSE IF context.type = "JSXExpressionContainer"
  THEN context.objectName \o <<".">> \o context.method \o <<" callback">>
  ELSE IF node.type = "FunctionDeclaration" /\ node.id # NoId THEN node.id
  ELSE <<"anonymous">>

(* traverse, lines 76-88: the name of function node n, whose parent is     *)
(* defined.                                                                *)
functionName(tree, n) ==
  LET parentInfo == getParentInfo(tree, tree[n].parent)
      context == extractContextFromNode(tree, tree[n].parent)
  IN  IF tree[n].type = "FunctionDeclaration" /\ tree[n].id # NoId THEN tree[n].id
      ELSE IF parentInfo # NoParentInfo
      THEN IF parentInfo.type = "CallExpression"
           THEN IF parentInfo.method # NoId THEN parentInfo.method
                ELSE IF parentInfo.name # NoId THEN parentInfo.name
                ELSE <<"anonymous">>
           ELSE IF parentInfo.name # NoId THEN parentInfo.name
           ELSE <<"anonymous">>
      ELSE IF context # NoContext THEN generateName(context, tree[n])
      ELSE <<"anonymous">>

(* Lines 90-93: the tree after the name is written onto node n. *)
WriteName(tree, n) ==
  IF tree[n].type \in {"ArrowFunctionExpression", "FunctionExpression"}
       /\ functionName(tree, n) # <<"anonymous">>
  THEN [tree EXCEPT ![n].id = functionName(tree, n)]
  ELSE tree

(* The callback of analyzeFile (traverser.test.ts 198-217): what it reads  *)
(* from the value analyzeFunction returns for the node.                    *)
onFunction(tree, n, hasLoc) ==
  [name |-> analyzeFunction(tree, n, hasLoc).name,
   type |-> analyzeFunction(tree, n, hasLoc).type,
   lines |-> analyzeFunction(tree, n, hasLoc).size,
   complexity |-> analyzeFunction(tree, n, hasLoc).complexity]

(***************************************************************************)
(* One ContextualNamingSystem instance under the calls of its public       *)
(* methods (contextual-naming-system.ts 69-113).                           *)
(***************************************************************************)
MaxContexts == 2

(* The nodes generateName is called with: type, own identifier and the     *)
(* start of loc as it is printed in the cache key.                         *)
NamedNode(type, id, line, column) ==
  [type |-> type, id |-> id, line |-> line, column |-> column]

NamingNodes ==
  {NamedNode("ArrowFunctionExpression", NoId, "1", "0"),
   NamedNode("ArrowFunctionExpression", NoId, "2", "4"),
   NamedNode("FunctionDeclaration", <<"declared">>, "1", "0"),
   NamedNode("FunctionExpression", NoId, "undefined", "undefined")}

Context(type, objectName, method) ==
  [type |-> type, objectName |-> objectName, method |-> method]

NamingContexts ==
  {Context("CallExpression", <<"items">>, <<"map">>),
   Context("CallExpression", <<"promise">>, <<"then">>),
   Context("OptionalCallExpression", <<"items">>, <<"map">>)}

NotGenerated == [node |-> NoId, context |-> NoContext, name |-> NoId]

(* Line 108 *)
getCurrentContext(stack) == IF Len(stack) > 0 THEN stack[Len(stack)] ELSE NoContext

(* Line 112: type-line-column::contextType *)
generateCacheKey(node, context) ==
  <<node.type, "-", node.line, "-", node.column, "::",
    IF context = NoContext THEN "no-context" ELSE context.type>>

(* namedFunctions.get(key); NoId when the key is absent *)
CachedName(cache, key) ==
  IF \E e \in cache : e[1] = key THEN (CHOOSE e \in cache : e[1] = key)[2] ELSE NoId

(* namedFunctions.set(key, name) *)
CacheSet(cache, key, name) == {e \in cache : e[1] # key} \cup {<<key, name>>}

(* A cache that is never filled: every name is computed anew. *)
CacheUnset(cache, key, name) == cache

(* Lines 78-97: the name returned for the node with this stack and cache. *)
generateNameCached(stack, cache, node) ==
  IF CachedName(cache, generateCacheKey(node, getCurrentContext(stack))) # NoId
  THEN CachedName(cache, generateCacheKey(node, getCurrentContext(stack)))
  ELSE generateName(getCurrentContext(stack), node)

NamingStart ==
  /\ contextStack = <<>>
  /\ namedFunctions = {}
  /\ generated = NotGenerated

NamingIdle ==
  /\ contextStack = <<>>
  /\ namedFunctions = {}
  /\ generated = NotGenerated

(* Lines 70-72 *)
PushContext ==
  /\ Len(contextStack) < MaxContexts
  /\ \E context \in NamingContexts : contextStack' = Append(contextStack, context)
  /\ UNCHANGED <<namedFunctions, generated>>
  /\ UNCHANGED <<detectorVars, analyzerVars, repoVars, runsVars>>

(* Lines 74-76; pop of an empty array does nothing. *)
PopContext ==
  /\ contextStack' = IF contextStack = <<>> THEN <<>>
                     ELSE SubSeq(contextStack, 1, Len(contextStack) - 1)
  /\ UNCHANGED <<namedFunctions, generated>>
  /\ UNCHANGED <<detectorVars, analyzerVars, repoVars, runsVars>>

(* Lines 78-97 *)
GenerateName ==
  /\ \E node \in NamingNodes :
       /\ generated' = [node |-> node, context |-> getCurrentContext(contextStack),
                        name |-> generateNameCached(contextStack, namedFunctions, node)]
       /\ namedFunctions' =
            IF \/ CachedName(namedFunctions,
                             generateCacheKey(node, getCurrentContext(contextStack))) # NoId
               \/ getCurrentContext(contextStack) = NoContext
            THEN namedFunctions
            ELSE CacheSet(namedFunctions,
                          generateCacheKey(node, getCurrentContext(contextStack)),
                          generateName(getCurrentContext(contextStack), node))
  /\ UNCHANGED contextStack
  /\ UNCHANGED <<detectorVars, analyzerVars, repoVars, runsVars>>

NamingNext ==
  \/ PushContext
  \/ PopContext
  \/ GenerateName

(* C27: the name generateName returns is the name that formatting the      *)
(* context on top of the stack gives for the node with an empty cache.     *)
C27_MemoizationIsTransparent ==
  generated # NotGenerated =>
    generated.name = generateName(generated.context, generated.node)

(***************************************************************************)
(* traverse (traverser.ts 57-123), one call at a time.  walkStack holds    *)
(* the nodes the pending calls are for: a call handles its node and then   *)
(* calls traverse for the children, in slot order.                         *)
(***************************************************************************)
TraverseStart ==
  /\ \E n \in 1..MaxProgramNodes : ast \in {t \in ProgramTrees(n) : WellFormed(t)}
  /\ parsed = ast
  /\ located = TRUE
  /\ analysis = NotAnalyzed
  /\ exportedComplexity = NotCounted
  /\ walkStack = <<>>
  /\ functionCalls = <<>>
  /\ walkPc = "parsed"

(* traverse(root, {onFunction}) is called; the parent is undefined. *)
TraverseCall ==
  /\ walkPc = "parsed"
  /\ walkStack' = <<1>>
  /\ walkPc' = "walking"
  /\ UNCHANGED <<ast, parsed, located, analysis, exportedComplexity, functionCalls>>
  /\ UNCHANGED <<detectorVars, repoVars, namingVars, runsVars>>

(* Lines 63-65: a literal; the call returns at once. *)
TraverseLiteral ==
  /\ walkPc = "walking"
  /\ walkStack # <<>>
  /\ ast[Head(walkStack)].type \in NODE_TYPES_TO_SKIP
  /\ walkStack' = Tail(walkStack)
  /\ UNCHANGED <<ast, parsed, located, analysis, exportedComplexity, functionCalls, walkPc>>
  /\ UNCHANGED <<detectorVars, repoVars, namingVars, runsVars>>

(* Lines 68-100 and 107-122: a function node with a parent.  The name is   *)
(* resolved and written, onFunction is called, the children follow.        *)
TraverseFunction ==
  /\ walkPc = "walking"
  /\ walkStack # <<>>
  /\ ast[Head(walkStack)].type \in FUNCTION_TYPES
  /\ ast[Head(walkStack)].parent # 0
  /\ ast' = WriteName(ast, Head(walkStack))
  /\ functionCalls' =
       Append(functionCalls,
              [node |-> Head(walkStack),
               parent |-> getParentInfo(ast, ast[Head(walkStack)].parent),
               record |-> onFunction(WriteName(ast, Head(walkStack)), Head(walkStack),
                                     located)])
  /\ walkStack' = Ascending(Children(ast, Head(walkStack))) \o Tail(walkStack)
  /\ UNCHANGED <<parsed, located, analysis, exportedComplexity, walkPc>>
  /\ UNCHANGED <<detectorVars, repoVars, namingVars, runsVars>>

(* Line 70 for a function node without a parent: the extractors read      *)
(* node.callee of undefined, which throws a TypeError out of traverse.     *)
TraverseFunctionThrows ==
  /\ walkPc = "walking"
  /\ walkStack # <<>>
  /\ ast[Head(walkStack)].type \in FUNCTION_TYPES
  /\ ast[Head(walkStack)].parent = 0
  /\ walkStack' = <<>>
  /\ walkPc' = "thrown"
  /\ UNCHANGED <<ast, parsed, located, analysis, exportedComplexity, functionCalls>>
  /\ UNCHANGED <<detectorVars, repoVars, namingVars, runsVars>>

(* Lines 107-122 for any other node; analyzeFile gives no onControlFlow. *)
TraverseNode ==
  /\ walkPc = "walking"
  /\ walkStack # <<>>
  /\ ast[Head(walkStack)].type \notin NODE_TYPES_TO_SKIP \cup FUNCTION_TYPES
  /\ walkStack' = Ascending(Children(ast, Head(walkStack))) \o Tail(walkStack)
  /\ UNCHANGED <<ast, parsed, located, analysis, exportedComplexity, functionCalls, walkPc>>
  /\ UNCHANGED <<detectorVars, repoVars, namingVars, runsVars>>

(* The outermost call returns. *)
TraverseReturns ==
  /\ walkPc = "walking"
  /\ walkStack = <<>>
  /\ walkPc' = "returned"
  /\ UNCHANGED <<ast, parsed, located, analysis, exportedComplexity, functionCalls,
                 walkStack>>
  /\ UNCHANGED <<detectorVars, repoVars, namingVars, runsVars>>

TraverseNext ==
  \/ TraverseCall
  \/ TraverseLiteral
  \/ TraverseFunction
  \/ TraverseFunctionThrows
  \/ TraverseNode
  \/ TraverseReturns

(***************************************************************************)
(* Properties of the traversal.  parsed is the tree as the parser gave it. *)
(***************************************************************************)
AnonymousFunctionTypes == {"ArrowFunctionExpression", "FunctionExpression"}

(* The parent kinds of the naming table that name by a name of the parent *)
TableParentTypes ==
  {"VariableDeclarator", "ObjectProperty", "ObjectMethod", "ClassMethod", "ClassProperty",
   "AssignmentExpression"}

(* The onFunction calls made for an anonymous arrow function that is an    *)
(* argument of items.map(...).                                             *)
MapCallbackCalls ==
  {i \in DOMAIN functionCalls :
     /\ parsed[functionCalls[i].node].type = "ArrowFunctionExpression"
     /\ parsed[functionCalls[i].node].id = NoId
     /\ parsed[parsed[functionCalls[i].node].parent].type = "CallExpression"
     /\ parsed[parsed[functionCalls[i].node].parent].callee = MemberCallee}

(* C14: an anonymous arrow function passed as an argument of               *)
(* items.map(...) is reported with the name "map callback" and with the    *)
(* array-callback kind.                                                    *)
C14_MapCallbackNamed ==
  \A i \in MapCallbackCalls :
    /\ functionCalls[i].record.name = <<"map", " callback">>
    /\ functionCalls[i].record.type = "array"

(* C15: once traverse has ended, onFunction has been called exactly once   *)
(* for every function node of the tree, in pre-order.  The nodes are       *)
(* numbered in pre-order and no node lies below a literal.                 *)
C15_EveryFunctionOnceInPreOrder ==
  walkPc \in {"returned", "thrown"} =>
    [i \in DOMAIN functionCalls |-> functionCalls[i].node]
      = Ascending({k \in DOMAIN parsed : parsed[k].type \in FUNCTION_TYPES})

(* C16: an anonymous arrow function or function expression whose parent is *)
(* a kind of the table is reported with the name the parent carries, a     *)
(* default export gives "default", and the parent info onFunction receives *)
(* has the kind of the parent as its type.                                 *)
C16_NameFromParentTable ==
  \A i \in DOMAIN functionCalls :
    LET n == functionCalls[i].node
        p == parsed[n].parent
    IN  (parsed[n].type \in AnonymousFunctionTypes /\ parsed[n].id = NoId) =>
          /\ (parsed[p].type \in TableParentTypes /\ parsed[p].name # NoId) =>
               /\ functionCalls[i].record.name = parsed[p].name
               /\ functionCalls[i].parent.type = parsed[p].type
               /\ functionCalls[i].parent.name = parsed[p].name
          /\ parsed[p].type = "ExportDefaultDeclaration" =>
               /\ functionCalls[i].record.name = <<"default">>
               /\ functionCalls[i].parent.type = "ExportDefaultDeclaration"

(* A finished walk that reported an arrow function bound by a variable     *)
(* declarator under the name of the variable.                              *)
C16_Witness ==
  /\ walkPc = "returned"
  /\ \E i \in DOMAIN functionCalls :
       /\ parsed[functionCalls[i].node].type = "ArrowFunctionExpression"
       /\ parsed[functionCalls[i].node].id = NoId
       /\ parsed[parsed[functionCalls[i].node].parent].type = "VariableDeclarator"
       /\ functionCalls[i].record.name = <<"bound">>
       /\ functionCalls[i].parent.type = "VariableDeclarator"

(* C25: a function node that carries an identifier of its own, a function  *)
(* declaration or a named function expression, is reported under that      *)
(* identifier whatever its parent is.                                      *)
C25_OwnIdentifierWins ==
  \A i \in DOMAIN functionCalls :
    parsed[functionCalls[i].node].id # NoId =>
      functionCalls[i].record.name = parsed[functionCalls[i].node].id

(* The ancestors of node n that carry a naming context. *)
ContextAncestors(tree, n) ==
  {a \in AncestorsOrSelf([k \in DOMAIN tree |-> tree[k].parent], tree[n].parent) :
     extractContextFromNode(tree, a) # NoContext}

(* The nearest of them: the ancestors of a node are numbered in the order  *)
(* they are entered.                                                       *)
NearestContextAncestor(tree, n) ==
  CHOOSE a \in ContextAncestors(tree, n) : \A b \in ContextAncestors(tree, n) : b <= a

(* C26: the context of a context-carrying node is on top of the context    *)
(* stack during the visit of every function below it that has no nearer    *)
(* context: an anonymous function below such a node, immediate child or    *)
(* not, whose parent gives it no name, is named from that context.         *)
C26_ContextHeldForDescendants ==
  \A i \in DOMAIN functionCalls :
    LET n == functionCalls[i].node
    IN  (/\ parsed[n].type \in AnonymousFunctionTypes
         /\ parsed[n].id = NoId
         /\ functionCalls[i].parent = NoParentInfo
         /\ ContextAncestors(parsed, n) # {})
          => functionCalls[i].record.name
               = generateName(extractContextFromNode(parsed,
                                                     NearestContextAncestor(parsed, n)),
                              parsed[n])

OptionalChainTypes == {"OptionalMemberExpression", "OptionalCallExpression"}

(* The optional-chaining nodes below function n that lie in no function    *)
(* nested in n.                                                            *)
OwnOptionalChains(tree, n) ==
  {k \in Descendants(tree, n) \ {n} :
     /\ tree[k].type \in OptionalChainTypes
     /\ \A a \in AncestorsOrSelf([j \in DOMAIN tree |-> tree[j].parent], k) :
          (a > n /\ a # k) => tree[a].type \notin FUNCTION_TYPES}

(* C28: every optional-chaining node of a function's own subtree adds one  *)
(* to the complexity reported for the function.                            *)
C28_OptionalChainingCounted ==
  \A i \in DOMAIN functionCalls :
    functionCalls[i].record.complexity
      >= 1 + Cardinality(OwnOptionalChains(parsed, functionCalls[i].node))

(* C29: traverse called on a root that is itself a function node, with no  *)
(* parent, returns without an error after one onFunction call for the      *)
(* root, under the name of a named declaration or else "anonymous".        *)
C29_RootFunctionTolerated ==
  (walkPc \in {"returned", "thrown"} /\ parsed[1].type \in FUNCTION_TYPES) =>
    /\ walkPc = "returned"
    /\ Cardinality({i \in DOMAIN functionCalls : functionCalls[i].node = 1}) = 1
    /\ \A i \in DOMAIN functionCalls :
         functionCalls[i].node = 1 =>
           functionCalls[i].record.name
             = IF parsed[1].id # NoId THEN parsed[1].id ELSE <<"anonymous">>

(* C17: after traverse returns, every node of the tree has the slots and   *)
(* the slot values it had before the call.                                 *)
C17_TraversalLeavesTreeUnchanged ==
  walkPc = "returned" => ast = parsed

(* C19: the kind of a reported function is promise when it is declared     *)
(* async, else generator when it is a generator, else arrow when it is an  *)
(* arrow function, else function.                                          *)
C19_KindByPriority ==
  \A i \in DOMAIN functionCalls :
    LET node == parsed[functionCalls[i].node]
    IN  functionCalls[i].record.type
          = IF node.async THEN "promise"
            ELSE IF node.generator THEN "generator"
            ELSE IF node.type = "ArrowFunctionExpression" THEN "arrow"
            ELSE "function"

(***************************************************************************)
(* The directory tree analyzeRepo is run on.  Entry 0 is the root          *)
(* directory; entries 1..n are numbered in the order a depth-first listing *)
(* meets them, so the entries readdir gives for a directory are its        *)
(* children by number.  A name is a sequence of characters.                *)
(***************************************************************************)
MaxEntries == 3

DirNames == {<<"l", "i", "b">>, <<"s", "r", "c">>, <<"n", "o", "d", "e", "_", "m", "o", "d", "u", "l", "e", "s">>, <<".", "g", "i", "t">>}

FileNames == {<<"a", ".", "t", "s">>, <<"b", ".", "J", "S", "X">>, <<"e", ".", "t", "s", "x">>, <<"c", ".", "m", "d">>}

(* An entry that is neither a directory nor a regular file (a symbolic     *)
(* link), with a source extension.                                         *)
LinkNames == {<<"d", ".", "j", "s">>}

EntryKinds ==
  [name : DirNames, kind : {"dir"}] \cup [name : FileNames, kind : {"file"}]
    \cup [name : LinkNames, kind : {"link"}]

IsDirectoryEntry(tree, k) == k = 0 \/ tree[k].kind = "dir"

ParentMap(tree) == [k \in DOMAIN tree |-> tree[k].parent]

(* The trees of n entries: a tree of n - 1 entries and one more entry,    *)
(* put in the directory of the entry before it or in one above that, with  *)
(* a name no other entry of that directory has.                            *)
RECURSIVE TreesOfSize(_)
TreesOfSize(n) ==
  IF n = 0 THEN {<<>>}
  ELSE UNION {{Append(t, [name |-> e.name, kind |-> e.kind, parent |-> p]) :
                 <<e, p>> \in {ep \in EntryKinds
                                       \X ({0} \cup (IF n = 1 THEN {}
                                                    ELSE AncestorsOrSelf(ParentMap(t), n - 1))) :
                                 /\ IsDirectoryEntry(t, ep[2])
                                 /\ \A j \in DOMAIN t :
                                      t[j].parent = ep[2] => t[j].name # ep[1].name}} :
              t \in TreesOfSize(n - 1)}

FileSystems(maxEntries) == UNION {TreesOfSize(n) : n \in 0..maxEntries}

(* fs.readdir(dirPath, { withFileTypes: true }) *)
Listing(tree, d) ==
  LET kids == {k \in DOMAIN tree : tree[k].parent = d}
      RECURSIVE InOrder(_)
      InOrder(S) == IF S = {} THEN <<>> ELSE <<SetMin(S)>> \o InOrder(S \ {SetMin(S)})
  IN  InOrder(kids)

(* The directories on the way from the root to entry k, the root left out. *)
DirsAbove(tree, k) == AncestorsOrSelf(ParentMap(tree), k) \ {k}

(* path.relative(repoRoot, filePath): the names from the root to the entry *)
RECURSIVE RelativePath(_, _)
RelativePath(tree, k) ==
  IF k = 0 THEN <<>> ELSE Append(RelativePath(tree, tree[k].parent), tree[k].name)

(***************************************************************************)
(* RepositoryAnalyzer.findFiles (traverser.test.ts 244-271)                *)
(***************************************************************************)
Uppers == <<"A", "B", "C", "D", "E", "F", "G", "H", "I", "J", "K", "L", "M", "N", "O",
            "P", "Q", "R", "S", "T", "U", "V", "W", "X", "Y", "Z">>

Lowers == <<"a", "b", "c", "d", "e", "f", "g", "h", "i", "j", "k", "l", "m", "n", "o",
            "p", "q", "r", "s", "t", "u", "v", "w", "x", "y", "z">>

(* String.prototype.toLowerCase *)
toLowerCase(str) ==
  [i \in DOMAIN str |->
     IF str[i] \in Range(Uppers)
     THEN Lowers[CHOOSE u \in DOMAIN Uppers : Uppers[u] = str[i]]
     ELSE str[i]]

(* path.extname: from the last '.' on, or nothing when there is no '.' or  *)
(* the only one is the first character.                                    *)
extname(name) ==
  LET dots == {i \in DOMAIN name : name[i] = "."}
      last == CHOOSE i \in dots : \A j \in dots : j <= i
  IN  IF dots = {} \/ last = 1 THEN <<>> ELSE SubSeq(name, last, Len(name))

SourceExtensions == {<<".", "t", "s">>, <<".", "j", "s">>, <<".", "t", "s", "x">>, <<".", "j", "s", "x">>}

(* The test of line 254 with the dot test left out. *)
SkipsNodeModulesOnly(name) == name = <<"n", "o", "d", "e", "_", "m", "o", "d", "u", "l", "e", "s">>

(* Line 254, negated: the directories findFiles does not enter. *)
IsSkippedDirectory(name) == (name # <<>> /\ name[1] = ".") \/ name = <<"n", "o", "d", "e", "_", "m", "o", "d", "u", "l", "e", "s">>

(* Lines 258-259 *)
HasSourceExtension(name) == toLowerCase(extname(name)) \in SourceExtensions

(* The error leaves processDirectory: findFiles, and with it analyzeRepo,   *)
(* rejects.                                                                *)
DirectoryErrorThrown == "thrown"

(* The error ends the discovery: findFiles returns what it has found.      *)
DirectoryErrorEndsDiscovery == "ends"

(* Lines 264-266: the catch of processDirectory logs the error and the     *)
(* call returns normally.                                                  *)
processDirectoryCatch == "caught"

Frame(d, listing, todo) == [dir |-> d, listing |-> listing, todo |-> todo]

TopFrame == dirStack[Len(dirStack)]

ReplaceTop(stack, frame) == [stack EXCEPT ![Len(stack)] = frame]

NoReport == [none |-> TRUE]

RepoStart ==
  /\ entries \in FileSystems(MaxEntries)
  /\ repoRoot = NoName
  /\ runPc = "idle"
  /\ dirStack = <<>>
  /\ files = <<>>
  /\ filePc = <<>>
  /\ batchStart = 0
  /\ batchesRun = 0
  /\ fileAnalyses = <<>>
  /\ errorLog = {}
  /\ failedDirs = {}
  /\ report = NoReport

RepoIdle ==
  /\ entries = <<>>
  /\ repoRoot = NoName
  /\ runPc = "unused"
  /\ dirStack = <<>>
  /\ files = <<>>
  /\ filePc = <<>>
  /\ batchStart = 0
  /\ batchesRun = 0
  /\ fileAnalyses = <<>>
  /\ errorLog = {}
  /\ failedDirs = {}
  /\ report = NoReport

(***************************************************************************)
(* Two analyzeRepo calls on one RepositoryAnalyzer (traverser.test.ts      *)
(* 129-242).  A path is the sequence of its segments.                      *)
(***************************************************************************)
RunIds == {1, 2}

(* The directories the runs are made on, and the source files under them. *)
RepoRoots == {<<"repos", "a">>, <<"repos", "b">>}

FilesUnder(root) ==
  IF root = <<"repos", "a">>
  THEN << <<"repos", "a", "x.ts">>, <<"repos", "a", "lib", "y.ts">> >>
  ELSE << <<"repos", "b", "z.ts">> >>

RECURSIVE CommonPrefixLength(_, _)
CommonPrefixLength(a, b) ==
  IF a = <<>> \/ b = <<>> \/ Head(a) # Head(b) THEN 0
  ELSE 1 + CommonPrefixLength(Tail(a), Tail(b))

(* path.relative(from, to) *)
relative(from, to) ==
  [k \in 1..(Len(from) - CommonPrefixLength(from, to)) |-> ".."]
    \o SubSeq(to, CommonPrefixLength(from, to) + 1, Len(to))

(* path.relative with the root the run was called with *)
relativeToOwnRoot(r, to) == relative(runs[r].root, to)

(* Line 223: path.relative(this.repoRoot, filePath) *)
relativePath(r, to) == relative(sharedRoot, to)

(* The outcome of an analyzeFile call: not settled yet, or null. *)
Pending == [state |-> "pending", path |-> <<>>]

Null == [state |-> "null", path |-> <<>>]

NotCalled == [pc |-> "idle", root |-> <<>>, files |-> <<>>, analyses |-> <<>>,
              report |-> <<>>]

RunsStart ==
  /\ sharedRoot = <<>>
  /\ runs = [r \in RunIds |-> NotCalled]

(* Lines 140-142: analyzeRepo(repoPath) sets this.repoRoot and awaits      *)
(* findFiles.                                                              *)
RunAnalyzeRepo ==
  /\ \E r \in RunIds, root \in RepoRoots :
       /\ runs[r].pc = "idle"
       /\ sharedRoot' = root
       /\ runs' = [runs EXCEPT ![r].pc = "findFiles", ![r].root = root]
  /\ UNCHANGED <<detectorVars, analyzerVars, repoVars, namingVars>>

(* Lines 142-151 and 244-271: findFiles(repoPath) resolves with the files  *)
(* under repoPath and the analyzeFile calls of the batch are started.      *)
RunFindFilesReturns ==
  /\ \E r \in RunIds :
       /\ runs[r].pc = "findFiles"
       /\ runs' = [runs EXCEPT ![r].pc = "batch",
                               ![r].files = FilesUnder(runs[r].root),
                               ![r].analyses =
                                 [k \in DOMAIN FilesUnder(runs[r].root) |-> Pending]]
  /\ UNCHANGED sharedRoot
  /\ UNCHANGED <<detectorVars, analyzerVars, repoVars, namingVars>>

(* Lines 188-237: an analyzeFile call of the batch passes its awaits and   *)
(* returns its analysis, of which the path is kept.                        *)
RunAnalyzeFileReturns ==
  /\ \E r \in RunIds :
       /\ runs[r].pc = "batch"
       /\ \E k \in DOMAIN runs[r].analyses :
            /\ runs[r].analyses[k] = Pending
            /\ runs' = [runs EXCEPT ![r].analyses[k] =
                                      [state |-> "analysis",
                                       path |-> relativePath(r, runs[r].files[k])]]
  /\ UNCHANGED sharedRoot
  /\ UNCHANGED <<detectorVars, analyzerVars, repoVars, namingVars>>

(* Lines 191, 238-241: the analyzeFile call returns null. *)
RunAnalyzeFileFails ==
  /\ \E r \in RunIds :
       /\ runs[r].pc = "batch"
       /\ \E k \in DOMAIN runs[r].analyses :
            /\ runs[r].analyses[k] = Pending
            /\ runs' = [runs EXCEPT ![r].analyses[k] = Null]
  /\ UNCHANGED sharedRoot
  /\ UNCHANGED <<detectorVars, analyzerVars, repoVars, namingVars>>

(* Lines 149-185: Promise.all resolves and analyzeRepo returns the report, *)
(* the non-null analyses in the order of the files.                        *)
RunAnalyzeRepoResolves ==
  /\ \E r \in RunIds :
       /\ runs[r].pc = "batch"
       /\ \A k \in DOMAIN runs[r].analyses : runs[r].analyses[k] # Pending
       /\ runs' = [runs EXCEPT ![r].pc = "resolved",
                               ![r].report =
                                 SelectSeq([k \in DOMAIN runs[r].analyses |->
                                              IF runs[r].analyses[k] = Null
                                              THEN [path |-> <<>>, file |-> <<>>]
                                              ELSE [path |-> runs[r].analyses[k].path,
                                                    file |-> runs[r].files[k]]],
                                           LAMBDA a : a.file # <<>>)]
  /\ UNCHANGED sharedRoot
  /\ UNCHANGED <<detectorVars, analyzerVars, repoVars, namingVars>>

RunsNext ==
  \/ RunAnalyzeRepo
  \/ RunFindFilesReturns
  \/ RunAnalyzeFileReturns
  \/ RunAnalyzeFileFails
  \/ RunAnalyzeRepoResolves

(* File to lies under directory root. *)
IsUnder(root, to) == Len(to) > Len(root) /\ SubSeq(to, 1, Len(root)) = root

(* C30: in every interleaving of two analyzeRepo runs on one analyzer, the *)
(* path of each file report of a run is relative to the root of that run,  *)
(* and the report of a run holds only files found under its own root.      *)
C30_RunsDoNotInterfere ==
  \A r \in DOMAIN runs :
    runs[r].pc = "resolved" =>
      \A k \in DOMAIN runs[r].report :
        /\ runs[r].report[k].path = relativeToOwnRoot(r, runs[r].report[k].file)
        /\ IsUnder(runs[r].root, runs[r].report[k].file)

(* No second analyzer is in use. *)
RunsIdle ==
  /\ sharedRoot = <<>>
  /\ runs = <<>>

(* Lines 140-142 and 244-248, 269: analyzeRepo sets the root, findFiles    *)
(* calls processDirectory on it, which awaits readdir.                     *)
AnalyzeRepo ==
  /\ runPc = "idle"
  /\ repoRoot' = "root"
  /\ runPc' = "discover"
  /\ dirStack' = <<Frame(0, TRUE, <<>>)>>
  /\ files' = <<>>
  /\ UNCHANGED <<entries, filePc, batchStart, batchesRun, fileAnalyses, errorLog,
                 failedDirs, report>>
  /\ UNCHANGED <<detectorVars, analyzerVars, namingVars, runsVars>>

(* Line 248: readdir resolves with the entries of the directory. *)
ReaddirResolves ==
  /\ runPc = "discover"
  /\ dirStack # <<>>
  /\ TopFrame.listing
  /\ dirStack' = ReplaceTop(dirStack, Frame(TopFrame.dir, FALSE, Listing(entries, TopFrame.dir)))
  /\ UNCHANGED <<entries, repoRoot, runPc, files, filePc, batchStart, batchesRun,
                 fileAnalyses, errorLog, failedDirs, report>>
  /\ UNCHANGED <<detectorVars, analyzerVars, namingVars, runsVars>>

(* Line 248 rejects (no such directory, no permission): lines 264-266. *)
ReaddirRejects ==
  /\ runPc = "discover"
  /\ dirStack # <<>>
  /\ TopFrame.listing
  /\ dirStack' = IF processDirectoryCatch = "caught"
                  THEN SubSeq(dirStack, 1, Len(dirStack) - 1)
                  ELSE <<>>
  /\ runPc' = IF processDirectoryCatch = "thrown" THEN "rejected" ELSE runPc
  /\ errorLog' = errorLog \cup {<<"dir", TopFrame.dir>>}
  /\ failedDirs' = failedDirs \cup {TopFrame.dir}
  /\ UNCHANGED <<entries, repoRoot, files, filePc, batchStart, batchesRun,
                 fileAnalyses, report>>
  /\ UNCHANGED <<detectorVars, analyzerVars, namingVars, runsVars>>

(* Lines 250-263: one turn of the loop over the entries. *)
ProcessEntry ==
  /\ runPc = "discover"
  /\ dirStack # <<>>
  /\ ~TopFrame.listing
  /\ TopFrame.todo # <<>>
  /\ LET e    == Head(TopFrame.todo)
         rest == ReplaceTop(dirStack, Frame(TopFrame.dir, FALSE, Tail(TopFrame.todo)))
     IN  /\ dirStack' =
              IF entries[e].kind = "dir" /\ ~IsSkippedDirectory(entries[e].name)
              THEN Append(rest, Frame(e, TRUE, <<>>))
              ELSE rest
         /\ files' =
              IF entries[e].kind = "file" /\ HasSourceExtension(entries[e].name)
              THEN Append(files, e)
              ELSE files
  /\ UNCHANGED <<entries, repoRoot, runPc, filePc, batchStart, batchesRun,
                 fileAnalyses, errorLog, failedDirs, report>>
  /\ UNCHANGED <<detectorVars, analyzerVars, namingVars, runsVars>>

(* The loop of a processDirectory call is over: the call returns. *)
DirectoryDone ==
  /\ runPc = "discover"
  /\ dirStack # <<>>
  /\ ~TopFrame.listing
  /\ TopFrame.todo = <<>>
  /\ dirStack' = SubSeq(dirStack, 1, Len(dirStack) - 1)
  /\ UNCHANGED <<entries, repoRoot, runPc, files, filePc, batchStart, batchesRun,
                 fileAnalyses, errorLog, failedDirs, report>>
  /\ UNCHANGED <<detectorVars, analyzerVars, namingVars, runsVars>>

(* Lines 269-270 and 142-147: findFiles returns the list and the batch     *)
(* loop begins.                                                            *)
FindFilesReturns ==
  /\ runPc = "discover"
  /\ dirStack = <<>>
  /\ runPc' = "batches"
  /\ filePc' = [f \in DOMAIN files |-> "pending"]
  /\ batchStart' = 0
  /\ UNCHANGED <<entries, repoRoot, dirStack, files, batchesRun, fileAnalyses,
                 errorLog, failedDirs, report>>
  /\ UNCHANGED <<detectorVars, analyzerVars, namingVars, runsVars>>

(***************************************************************************)
(* RepositoryAnalyzer.analyzeRepo and analyzeFile                          *)
(* (traverser.test.ts 140-242, 273-281)                                    *)
(***************************************************************************)
(* The batch size (line 130), 100 in the code, scaled down with the number *)
(* of entries of the directory tree.                                       *)
BATCH_SIZE == 2

(* Line 148: files.slice(i, i + BATCH_SIZE), as positions in files *)
Batch == {f \in DOMAIN files : batchStart < f /\ f <= batchStart + BATCH_SIZE}

Settled(pc) == pc \in {"report", "null", "rejected"}

(* Promise.race in place of Promise.all: the await ends with the first     *)
(* analysis that settles.                                                  *)
SomeSettled(pcs, batch) == \E f \in batch : Settled(pcs[f])

(* Lines 149-151: await Promise.all(...) ends when every analysis of the   *)
(* batch has settled (or, at once, when one has rejected).                 *)
BatchSettled(pcs, batch) ==
  \/ \A f \in batch : Settled(pcs[f])
  \/ \E f \in batch : pcs[f] = "rejected"

(* The error leaves analyzeFile: the promise of the file rejects. *)
AnalyzeFileErrorThrown == "rejected"

(* Lines 238-241: the catch of analyzeFile logs and returns null. *)
analyzeFileCatch == "null"

(* A number the code computes by division, as numerator and denominator.  *)
Fraction(num, den) == [num |-> num, den |-> den]

Zero == Fraction(0, 1)

(* `sum / count || 0`: 0 / 0 is NaN and NaN || 0 is 0, as is 0 || 0. *)
QuotientOrZero(sum, count) ==
  IF count = 0 \/ sum.num = 0 THEN Zero ELSE Fraction(sum.num, sum.den * count)

Plus(x, y) == Fraction(x.num * y.den + y.num * x.den, x.den * y.den)

RECURSIVE SumFractions(_)
SumFractions(s) == IF s = <<>> THEN Zero ELSE Plus(Head(s), SumFractions(Tail(s)))

(* One entry of the functions of a file (lines 207-215), without its text. *)
FunctionMetrics(name, lines, complexity) ==
  [name |-> name, lines |-> lines, complexity |-> complexity,
   hasWarning |-> hasWarning(lines, complexity)]

(* What analyzeFile finds in the text of a file, by the name of the file:  *)
(* its number of lines, the functions the walk collects from it (lines     *)
(* 193-218) and the number findDuplicatedCode returns for them (line 222). *)
FileText(name) ==
  CASE name = <<"a", ".", "t", "s">> ->
         [lineCount |-> 1, functions |-> <<>>, duplicatedLines |-> 0]
    [] name = <<"b", ".", "J", "S", "X">> ->
         [lineCount |-> 52,
          functions |-> <<FunctionMetrics(<<"declared">>, 50, 10)>>,
          duplicatedLines |-> 0]
    [] name = <<"e", ".", "t", "s", "x">> ->
         [lineCount |-> 60,
          functions |-> <<FunctionMetrics(<<"declared">>, 51, 3),
                          FunctionMetrics(<<"bound">>, 4, 11),
                          FunctionMetrics(<<"anonymous">>, 4, 1)>>,
          duplicatedLines |-> 4]
    [] OTHER ->
         [lineCount |-> 0, functions |-> <<>>, duplicatedLines |-> 0]

(* Math.max(...values, 0) *)
RECURSIVE MaxWithZero(_)
MaxWithZero(values) ==
  IF values = <<>> THEN 0 ELSE Max(Head(values), MaxWithZero(Tail(values)))

ComplexitiesOf(metrics) == [k \in DOMAIN metrics |-> metrics[k].complexity]

(* Lines 220-237: the analysis analyzeFile returns for files[f]. *)
FileAnalysisOf(f) ==
  LET text == FileText(entries[files[f]].name)
      totalLines == SumSeq([k \in DOMAIN text.functions |-> text.functions[k].lines])
  IN  [path |-> RelativePath(entries, files[f]),
       name |-> entries[files[f]].name,
       extension |-> extname(entries[files[f]].name),
       totalLines |-> text.lineCount,
       functions |-> text.functions,
       functionsCount |-> Len(text.functions),
       complexity |-> QuotientOrZero(Fraction(SumSeq(ComplexitiesOf(text.functions)), 1),
                                     Len(text.functions)),
       maxComplexity |-> MaxWithZero(ComplexitiesOf(text.functions)),
       duplicationPercentage |->
         IF totalLines > 0 THEN Fraction(text.duplicatedLines * 100, totalLines)
         ELSE Zero,
       warningCount |-> Len(SelectSeq(text.functions, LAMBDA fn : fn.hasWarning))]

(* Lines 153-169: the non-null results of the batch, in batch order. *)
RECURSIVE Collect(_, _)
Collect(pcs, batch) ==
  IF batch = {} THEN <<>>
  ELSE LET f == SetMin(batch)
       IN  (IF pcs[f] = "report" THEN <<FileAnalysisOf(f)>> ELSE <<>>)
             \o Collect(pcs, batch \ {f})

(* Lines 155-167: the functions of the analyses, in the order they are    *)
(* pushed, with lines renamed to size.                                     *)
RECURSIVE FunctionsOf(_)
FunctionsOf(analyses) ==
  IF analyses = <<>> THEN <<>>
  ELSE [k \in DOMAIN Head(analyses).functions |->
          [name |-> Head(analyses).functions[k].name,
           size |-> Head(analyses).functions[k].lines,
           complexity |-> Head(analyses).functions[k].complexity]]
       \o FunctionsOf(Tail(analyses))

(* A count that takes in the functions of exactly 50 lines. *)
functionsFrom50Lines(analyses) ==
  Len(SelectSeq(analyses, LAMBDA fn : fn.size >= 50))

(* Line 180 *)
functionsOver50Lines(analyses) ==
  Len(SelectSeq(analyses, LAMBDA fn : fn.size > 50))

(* Line 181 *)
functionsOverComplexity10(analyses) ==
  Len(SelectSeq(analyses, LAMBDA fn : fn.complexity > 10))

(* Lines 172-185 *)
BuildReport(analyses) ==
  [functions |-> FunctionsOf(analyses),
   files |-> analyses,
   summary |->
     [totalFiles |-> Len(analyses),
      totalLines |-> SumSeq([r \in DOMAIN analyses |-> analyses[r].totalLines]),
      totalFunctions |-> Len(FunctionsOf(analyses)),
      errorCount |-> 0,
      functionsOver50Lines |-> functionsOver50Lines(FunctionsOf(analyses)),
      functionsOverComplexity10 |-> functionsOverComplexity10(FunctionsOf(analyses)),
      averageComplexity |->
        QuotientOrZero(
          Fraction(SumSeq([k \in DOMAIN FunctionsOf(analyses) |->
                             FunctionsOf(analyses)[k].complexity]), 1),
          Len(FunctionsOf(analyses))),
      averageDuplication |->
        QuotientOrZero(
          SumFractions([r \in DOMAIN analyses |-> analyses[r].duplicationPercentage]),
          Len(analyses))]]

(* Lines 147-151: the next batch; every analyzeFile call of it runs up to  *)
(* its first await, the readFile of parseFile (lines 190, 275).            *)
StartBatch ==
  /\ runPc = "batches"
  /\ batchStart < Len(files)
  /\ filePc' = [f \in DOMAIN files |-> IF f \in Batch THEN "parse" ELSE filePc[f]]
  /\ batchesRun' = batchesRun + 1
  /\ runPc' = "awaiting"
  /\ UNCHANGED <<entries, repoRoot, dirStack, files, batchStart, fileAnalyses,
                 errorLog, failedDirs, report>>
  /\ UNCHANGED <<detectorVars, analyzerVars, namingVars, runsVars>>

(* Lines 275-276 and 190-193: the file is read and parsed; analyzeFile     *)
(* goes on to its own readFile.                                            *)
ParseFileResolves ==
  /\ \E f \in DOMAIN filePc :
       /\ filePc[f] = "parse"
       /\ filePc' = [filePc EXCEPT ![f] = "read"]
  /\ UNCHANGED <<entries, repoRoot, runPc, dirStack, files, batchStart, batchesRun,
                 fileAnalyses, errorLog, failedDirs, report>>
  /\ UNCHANGED <<detectorVars, analyzerVars, namingVars, runsVars>>

(* Lines 277-280 and 191: readFile rejects or the parser throws; parseFile *)
(* logs and returns null, and analyzeFile returns null.                    *)
ParseFileFails ==
  /\ \E f \in DOMAIN filePc :
       /\ filePc[f] = "parse"
       /\ filePc' = [filePc EXCEPT ![f] = "null"]
       /\ errorLog' = errorLog \cup {<<"parse", files[f]>>}
  /\ UNCHANGED <<entries, repoRoot, runPc, dirStack, files, batchStart, batchesRun,
                 fileAnalyses, failedDirs, report>>
  /\ UNCHANGED <<detectorVars, analyzerVars, namingVars, runsVars>>

(* Lines 193-220: the text is read, the functions are collected, and       *)
(* analyzeFile awaits stat.                                                *)
ReadFileResolves ==
  /\ \E f \in DOMAIN filePc :
       /\ filePc[f] = "read"
       /\ filePc' = [filePc EXCEPT ![f] = "stat"]
  /\ UNCHANGED <<entries, repoRoot, runPc, dirStack, files, batchStart, batchesRun,
                 fileAnalyses, errorLog, failedDirs, report>>
  /\ UNCHANGED <<detectorVars, analyzerVars, namingVars, runsVars>>

(* Lines 193-220 throw (readFile rejects, the walk or a callback throws):  *)
(* lines 238-241.                                                          *)
ReadFileFails ==
  /\ \E f \in DOMAIN filePc :
       /\ filePc[f] = "read"
       /\ filePc' = [filePc EXCEPT ![f] = analyzeFileCatch]
       /\ errorLog' = errorLog \cup {<<"file", files[f]>>}
  /\ UNCHANGED <<entries, repoRoot, runPc, dirStack, files, batchStart, batchesRun,
                 fileAnalyses, failedDirs, report>>
  /\ UNCHANGED <<detectorVars, analyzerVars, namingVars, runsVars>>

(* Lines 220-237: stat resolves and analyzeFile returns the analysis. *)
StatResolves ==
  /\ \E f \in DOMAIN filePc :
       /\ filePc[f] = "stat"
       /\ filePc' = [filePc EXCEPT ![f] = "report"]
  /\ UNCHANGED <<entries, repoRoot, runPc, dirStack, files, batchStart, batchesRun,
                 fileAnalyses, errorLog, failedDirs, report>>
  /\ UNCHANGED <<detectorVars, analyzerVars, namingVars, runsVars>>

(* Line 220 rejects, or lines 221-237 throw: lines 238-241. *)
StatFails ==
  /\ \E f \in DOMAIN filePc :
       /\ filePc[f] = "stat"
       /\ filePc' = [filePc EXCEPT ![f] = analyzeFileCatch]
       /\ errorLog' = errorLog \cup {<<"file", files[f]>>}
  /\ UNCHANGED <<entries, repoRoot, runPc, dirStack, files, batchStart, batchesRun,
                 fileAnalyses, failedDirs, report>>
  /\ UNCHANGED <<detectorVars, analyzerVars, namingVars, runsVars>>

(* Lines 149-170: the await of the batch ends; its results are added and   *)
(* the loop variable advances.  A rejected analysis rejects Promise.all    *)
(* and, nothing catching it, analyzeRepo.                                  *)
BatchResolves ==
  /\ runPc = "awaiting"
  /\ BatchSettled(filePc, Batch)
  /\ IF \E f \in Batch : filePc[f] = "rejected"
     THEN /\ runPc' = "rejected"
          /\ UNCHANGED <<fileAnalyses, batchStart>>
     ELSE /\ runPc' = "batches"
          /\ fileAnalyses' = fileAnalyses \o Collect(filePc, Batch)
          /\ batchStart' = batchStart + BATCH_SIZE
  /\ UNCHANGED <<entries, repoRoot, dirStack, files, filePc, batchesRun, errorLog,
                 failedDirs, report>>
  /\ UNCHANGED <<detectorVars, analyzerVars, namingVars, runsVars>>

(* Lines 172-185: the loop is over and analyzeRepo resolves. *)
AnalyzeRepoResolves ==
  /\ runPc = "batches"
  /\ batchStart >= Len(files)
  /\ report' = BuildReport(fileAnalyses)
  /\ runPc' = "resolved"
  /\ UNCHANGED <<entries, repoRoot, dirStack, files, filePc, batchStart, batchesRun,
                 fileAnalyses, errorLog, failedDirs>>
  /\ UNCHANGED <<detectorVars, analyzerVars, namingVars, runsVars>>

RepoNext ==
  \/ AnalyzeRepo
  \/ ReaddirResolves
  \/ ReaddirRejects
  \/ ProcessEntry
  \/ DirectoryDone
  \/ FindFilesReturns
  \/ StartBatch
  \/ ParseFileResolves
  \/ ParseFileFails
  \/ ReadFileResolves
  \/ ReadFileFails
  \/ StatResolves
  \/ StatFails
  \/ BatchResolves
  \/ AnalyzeRepoResolves

(***************************************************************************)
(* Properties of the repository run                                        *)
(***************************************************************************)
DotPrefixed(name) == name # <<>> /\ Head(name) = "."

NamedNodeModules(name) ==
  name = <<"n", "o", "d", "e", "_", "m", "o", "d", "u", "l", "e", "s">>

(* Entry e lies, at any depth, under a directory that discovery skips. *)
UnderSkippedDirectory(e) ==
  \E d \in DirsAbove(entries, e) :
    DotPrefixed(entries[d].name) \/ NamedNodeModules(entries[d].name)

(* Entry e lies under a directory (the root included) whose listing failed *)
UnderFailedDirectory(e) ==
  0 \in failedDirs \/ \E d \in DirsAbove(entries, e) : d \in failedDirs

(* A regular file whose extension is .js, .jsx, .ts or .tsx in any case *)
IsSourceFile(e) ==
  /\ entries[e].kind = "file"
  /\ toLowerCase(extname(entries[e].name))
       \in {<<".", "j", "s">>, <<".", "j", "s", "x">>, <<".", "t", "s">>,
            <<".", "t", "s", "x">>}

Discovered == runPc \in {"batches", "awaiting", "resolved"}

FailedFiles == {f \in DOMAIN filePc : filePc[f] = "null"}

ReportedPaths == {report.files[r].path : r \in DOMAIN report.files}

BatchOf(f) == (f - 1) \div BATCH_SIZE

InFlight == {f \in DOMAIN filePc : filePc[f] \in {"parse", "read", "stat"}}

(* C3: when analyzeRepo has resolved, summary.errorCount is the number of  *)
(* discovered files whose analysis failed.                                 *)
C3_ErrorCountCountsFailures ==
  runPc = "resolved" => report.summary.errorCount = Cardinality(FailedFiles)

(* C4: a failing file never makes the run reject, and when the run has     *)
(* resolved, ceil(N/B) batches were run and the report holds exactly the   *)
(* analyses of the N - k files that did not fail.                          *)
C4_FailuresDoNotAbort ==
  /\ runPc # "rejected"
  /\ runPc = "resolved" =>
       /\ batchesRun = (Len(files) + BATCH_SIZE - 1) \div BATCH_SIZE
       /\ Len(report.files) = Len(files) - Cardinality(FailedFiles)
       /\ ReportedPaths
            = {RelativePath(entries, files[f]) : f \in DOMAIN filePc \ FailedFiles}
       /\ \A f \in FailedFiles : RelativePath(entries, files[f]) \notin ReportedPaths

(* Three files in two batches, a file of the first batch failing. *)
C4_Witness ==
  /\ runPc = "resolved"
  /\ Len(files) > BATCH_SIZE
  /\ batchesRun = 2
  /\ \E f \in FailedFiles : BatchOf(f) = 0
  /\ Len(report.files) = Len(files) - Cardinality(FailedFiles)
  /\ Len(report.files) > 0

(* C5: no analysis of a later batch has started while an analysis of an    *)
(* earlier batch is unsettled, a settled analysis has a report or a logged *)
(* failure, and at most BATCH_SIZE analyses are in flight.                 *)
C5_BatchesAreConsecutive ==
  /\ \A f, g \in DOMAIN filePc :
       (BatchOf(f) < BatchOf(g) /\ filePc[g] # "pending")
         => filePc[f] \in {"report", "null"}
  /\ \A f \in FailedFiles :
       <<"parse", files[f]>> \in errorLog \/ <<"file", files[f]>> \in errorLog
  /\ Cardinality(InFlight) <= BATCH_SIZE

(* A file of the second batch in flight after a first batch with a failure *)
C5_Witness ==
  /\ \E g \in InFlight : BatchOf(g) = 1
  /\ \E f \in FailedFiles : BatchOf(f) = 0
  /\ \E f \in DOMAIN filePc : BatchOf(f) = 0 /\ filePc[f] = "report"

(* C6: a discovered file is a regular source file that is under no skipped *)
(* directory; when discovery has returned, the list holds exactly the      *)
(* source files under no skipped and no unlistable directory; and no       *)
(* reported path leads through a skipped directory.                        *)
C6_DiscoveryIsExact ==
  /\ \A f \in DOMAIN files : IsSourceFile(files[f]) /\ ~UnderSkippedDirectory(files[f])
  /\ Discovered =>
       Range(files) = {e \in DOMAIN entries :
                         /\ IsSourceFile(e)
                         /\ ~UnderSkippedDirectory(e)
                         /\ ~UnderFailedDirectory(e)}
  /\ runPc = "resolved" =>
       \A p \in ReportedPaths :
         \A c \in 1..(Len(p) - 1) : ~DotPrefixed(p[c]) /\ ~NamedNodeModules(p[c])

(* A run over a tree with a source file under a skipped directory and a    *)
(* source file with an upper-case extension that is reported.              *)
C6_Witness ==
  /\ runPc = "resolved"
  /\ \E e \in DOMAIN entries : IsSourceFile(e) /\ UnderSkippedDirectory(e)
  /\ \E f \in DOMAIN files :
       /\ extname(entries[files[f]].name) # toLowerCase(extname(entries[files[f]].name))
       /\ RelativePath(entries, files[f]) \in ReportedPaths

(* C7: when the listing of a directory has failed, every source file that  *)
(* is under no failed and no skipped directory is discovered and analysed. *)
C7_OnlyFailedSubtreeIsSkipped ==
  (runPc = "resolved" /\ failedDirs # {}) =>
    \A e \in DOMAIN entries :
      (IsSourceFile(e) /\ ~UnderSkippedDirectory(e) /\ ~UnderFailedDirectory(e))
        => \E f \in DOMAIN filePc : files[f] = e /\ filePc[f] \in {"report", "null"}

(* A failed directory, and a reported file in a sibling directory listed   *)
(* after it.                                                               *)
C7_Witness ==
  /\ runPc = "resolved"
  /\ \E d \in failedDirs \ {0} :
       \E f \in DOMAIN filePc :
         /\ filePc[f] = "report"
         /\ entries[files[f]].parent # 0
         /\ entries[files[f]].parent > d
         /\ entries[entries[files[f]].parent].parent = entries[d].parent

(* C8: analyzeRepo never rejects; it goes on until it has resolved, and it *)
(* resolves with a report, which is empty when the root cannot be listed.  *)
C8_AlwaysResolves ==
  /\ runPc # "rejected"
  /\ runPc = "resolved" => report # NoReport
  /\ (runPc = "resolved" /\ 0 \in failedDirs) =>
       (report.files = <<>> /\ report.summary.totalFiles = 0)
  /\ (~ENABLED RepoNext) => runPc = "resolved"

(* A resolved run in which a listing, a parse and a later step failed. *)
C8_Witness ==
  /\ runPc = "resolved"
  /\ failedDirs # {}
  /\ \E e \in DOMAIN entries : <<"parse", e>> \in errorLog
  /\ \E e \in DOMAIN entries : <<"file", e>> \in errorLog

(* The functions of the files of the report, file by file. *)
RECURSIVE ReportedFunctions(_)
ReportedFunctions(fileReports) ==
  IF fileReports = <<>> THEN <<>>
  ELSE Head(fileReports).functions \o ReportedFunctions(Tail(fileReports))

(* C20: the report analyzeRepo resolves with is consistent with its own    *)
(* contents: totalFiles is the number of file reports, totalFunctions the  *)
(* sum of their functionsCount, the two threshold counts are the numbers   *)
(* of their functions with lines > 50 and complexity > 10, maxComplexity   *)
(* of a file is the maximum of its functions' complexity or 0 when it has  *)
(* none, and every average is 0 when its divisor is 0.                     *)
C20_ReportIsConsistent ==
  runPc = "resolved" =>
    /\ report.summary.totalFiles = Len(report.files)
    /\ report.summary.totalFunctions
         = SumSeq([r \in DOMAIN report.files |-> report.files[r].functionsCount])
    /\ report.summary.functionsOver50Lines
         = Cardinality({k \in DOMAIN ReportedFunctions(report.files) :
                          ReportedFunctions(report.files)[k].lines > 50})
    /\ report.summary.functionsOverComplexity10
         = Cardinality({k \in DOMAIN ReportedFunctions(report.files) :
                          ReportedFunctions(report.files)[k].complexity > 10})
    /\ \A r \in DOMAIN report.files :
         /\ \A k \in DOMAIN report.files[r].functions :
              report.files[r].functions[k].complexity <= report.files[r].maxComplexity
         /\ IF report.files[r].functions = <<>>
            THEN report.files[r].maxComplexity = 0
            ELSE \E k \in DOMAIN report.files[r].functions :
                   report.files[r].functions[k].complexity = report.files[r].maxComplexity
         /\ report.files[r].functionsCount = 0 => report.files[r].complexity = Zero
         /\ (\A k \in DOMAIN report.files[r].functions :
               report.files[r].functions[k].lines = 0)
              => report.files[r].duplicationPercentage = Zero
    /\ report.summary.totalFunctions = 0 => report.summary.averageComplexity = Zero
    /\ Len(report.files) = 0 => report.summary.averageDuplication = Zero

(* A report with a file without functions and a file with a function over  *)
(* each threshold, next to a file whose function lies on both thresholds.  *)
C20_Witness ==
  /\ runPc = "resolved"
  /\ Len(report.files) = 3
  /\ \E r \in DOMAIN report.files : report.files[r].functions = <<>>
  /\ \E r \in DOMAIN report.files :
       \E k \in DOMAIN report.files[r].functions :
         /\ report.files[r].functions[k].lines = 50
         /\ report.files[r].functions[k].complexity = 10
  /\ report.summary.totalFunctions = 4
  /\ report.summary.functionsOver50Lines = 1
  /\ report.summary.functionsOverComplexity10 = 1

(***************************************************************************)
(* Specifications                                                          *)
(***************************************************************************)
InitDetector == DetectorStart /\ AnalyzerIdle /\ RepoIdle /\ NamingIdle /\ RunsIdle

SpecDetector == InitDetector /\ [][DetectorNext]_vars

InitSimilarity == SimilarityStart /\ AnalyzerIdle /\ RepoIdle /\ NamingIdle /\ RunsIdle

SpecSimilarity == InitSimilarity /\ [][DetectorNext]_vars

InitExtraction == ExtractionStart /\ AnalyzerIdle /\ RepoIdle /\ NamingIdle /\ RunsIdle

SpecExtraction == InitExtraction /\ [][DetectorNext]_vars

InitNaming == NamingStart /\ DetectorIdle /\ AnalyzerIdle /\ RepoIdle /\ RunsIdle

SpecNaming == InitNaming /\ [][NamingNext]_vars

InitRuns == RunsStart /\ DetectorIdle /\ AnalyzerIdle /\ RepoIdle /\ NamingIdle

SpecRuns == InitRuns /\ [][RunsNext]_vars

InitComplexity == AnalyzerStart /\ DetectorIdle /\ RepoIdle /\ NamingIdle /\ RunsIdle

SpecComplexity == InitComplexity /\ [][ComplexityNext]_vars

InitTraverse == TraverseStart /\ DetectorIdle /\ RepoIdle /\ NamingIdle /\ RunsIdle

SpecTraverse == InitTraverse /\ [][TraverseNext]_vars

InitAnalyzer == AnalyzerStart /\ DetectorIdle /\ RepoIdle /\ NamingIdle /\ RunsIdle

SpecAnalyzer == InitAnalyzer /\ [][AnalyzerNext]_vars

Init == RepoStart /\ DetectorIdle /\ AnalyzerIdle /\ NamingIdle /\ RunsIdle

Next == RepoNext

Spec == Init /\ [][Next]_vars

====
